---------------------------- MODULE Spec2Model ----------------------------
(***************************************************************************)
(* webstrings (osm6495/webstrings, main.go): the shared URL queue, the     *)
(* content fetcher, the quote-delimited string tokenizer and the crawl     *)
(* (run / search) as state machines.                                       *)
(*                                                                         *)
(* A Go string is modelled as a sequence of one-character strings, so      *)
(* "" is <<>> and "/p" is <<"/", "p">>; concatenation is \o.               *)
(*                                                                         *)
(* Specifications:                                                         *)
(*   Spec         run: the rate-limited dispatch loop, the pool's search   *)
(*                goroutines, the queue they push to and stdout            *)
(*   SpecQueue    goroutines calling URLQueue.Push / URLQueue.Pop          *)
(*   SpecFetch    getContents on every url, base and network outcome       *)
(*   SpecStrings  getStrings on every text and both values of noisy        *)
(*   SpecRepeat   several calls of getStrings in a row                        *)
(*   SpecSecrets  calls of getSecrets one after another                       *)
(*   SpecSecretsRace  pool goroutines inside getSecrets at once               *)
(*   SpecRun      run with verify off on a network of two answers             *)
(*   SpecSearch   one call of search under every combination of flags         *)
(*   SpecSearchFair  SpecSearch, the call of getDOM being made when due       *)
(*   SpecDom      getDOM on every document of a few script elements           *)
(***************************************************************************)
EXTENDS Integers, Sequences, FiniteSets, TLC

VARIABLES
    \* ---- URLQueue (main.go:27-47) and the goroutines that call it
    queue,      \* URLQueue.queue, the slice of pending URLs
    mu,         \* URLQueue.mu: NoHolder, or the goroutine holding the lock
    qpc,        \* per goroutine: position inside Push / Pop
    qarg,       \* per goroutine: argument url of the Push in progress
    qtmp,       \* per goroutine: slice header read by append (main.go:35)
    qret,       \* per goroutine: value Pop is about to return
    qempty,     \* per goroutine: Pop took the len(q.queue) == 0 branch
    opsLeft,    \* calls the harness may still start
    pushed,     \* history: urls in the order append stored them
    popped,     \* history: urls in the order Pop removed them
    pushDone,   \* history: urls of the Push calls that have returned
    \* ---- one call of getContents (main.go:103-153)
    fpc,        \* "call" before the call, "done" after it returned
    fUrl,       \* argument url
    fBase,      \* argument baseUrl
    fEnv,       \* what the network does with the request
    fRes,       \* what getContents returned and did
    \* ---- calls of getStrings (main.go:244-314)
    spc,        \* "call" before the call, "done" after it returned
    sText,      \* argument text
    sNoisy,     \* flags["noisy"]
    sShape,     \* how sText was composed, for texts built around literals
    sRes,       \* the slice getStrings returned
    sLocals,    \* the scanner's locals as the last call left them
    sCalls,     \* calls made so far
    sFirst,     \* the first call: its input, its result, other calls since
    \* ---- the crawl: run (main.go:530-556) and its searches (main.go:386-519)
    flags,      \* the flags map: dom, verify, noisy, secrets, urls
    rpc,        \* position of run
    snapshot,   \* the slice the range statement of main.go:538 iterates
    ri,         \* index of the next iteration of the range loop
    tokens,     \* tokens in the rate limiter's bucket
    w,          \* per pool goroutine: the locals of its search call
    outMu,      \* outputMutex: NoHolder, or the goroutine holding it
    output,     \* what has been written to stdout, in order
    runErr,     \* what run returned
    \* ---- getSecrets (main.go:325-369) and the table it shares
    secretRegex,\* the package-level map: label to the name of its pattern
    gpc,        \* "call" before a call made alone, "done" after it
    gText,      \* argument text
    gFlags,     \* flags["urls"] and flags["noisy"]
    gRes,       \* the map the last call returned
    gCalls,     \* calls made so far
    gPrev,      \* the flags of the call before this one
    kpc,        \* per pool goroutine: its position inside getSecrets
    kLeft,      \* per pool goroutine: calls of getSecrets it has yet to make
    kSeen,      \* per pool goroutine: the table as its range loop found it
    gFatal,     \* the runtime aborted the process on a concurrent map access
    \* ---- getDOM (main.go:196-234) called on its own
    dpc,        \* "idle", "call" or "done"
    dBrowser,   \* what chromedp.Run meets
    dRes        \* the three values getDOM returned

queueVars == <<queue, mu, qpc, qarg, qtmp, qret, qempty, opsLeft,
               pushed, popped, pushDone>>

fetchVars == <<fpc, fUrl, fBase, fEnv, fRes>>

stringVars == <<spc, sText, sNoisy, sShape, sRes, sLocals, sCalls, sFirst>>

crawlVars == <<flags, rpc, snapshot, ri, tokens, w, outMu, output, runErr>>

secretVars == <<secretRegex, gpc, gText, gFlags, gRes, gCalls, gPrev,
                kpc, kLeft, kSeen, gFatal>>

domVars == <<dpc, dBrowser, dRes>>

vars == <<queueVars, fetchVars, stringVars, crawlVars, secretVars, domVars>>

-----------------------------------------------------------------------------
(* Go strings as character sequences *)

EmptyStr == <<>>

\* s + t
Concat(s, t) == s \o t

\* strings.HasSuffix(s, suf)
HasSuffix(s, suf) ==
    /\ Len(suf) <= Len(s)
    /\ SubSeq(s, Len(s) - Len(suf) + 1, Len(s)) = suf

\* number of occurrences of x in the sequence s
Count(s, x) == Cardinality({i \in 1..Len(s) : s[i] = x})

\* all sequences over S of length at most n
SeqsUpTo(S, n) == UNION {[1..k -> S] : k \in 0..n}

-----------------------------------------------------------------------------
(* net/url.Parse and net/http as getContents uses them, main.go:112-139 *)

\* characters of the urls the fetcher is given: a letter, the scheme and port
\* separator, the path separator, and a character no host name may hold
UrlAlphabet == {"h", ":", "/", " "}

Letters == {"h", "t", "p", "s"}

\* "https://", main.go:118-119
HttpsPrefix == <<"h", "t", "t", "p", "s", ":", "/", "/">>

\* index of the first character of s that is not a letter, Len(s) + 1 if none
RECURSIVE FirstNonLetter(_, _)
FirstNonLetter(s, i) ==
    IF i > Len(s) THEN i
    ELSE IF s[i] \in Letters THEN FirstNonLetter(s, i + 1)
    ELSE i

\* index of the first occurrence of c in s at or after i, Len(s) + 1 if none
RECURSIVE IndexFrom(_, _, _)
IndexFrom(s, c, i) ==
    IF i > Len(s) THEN i
    ELSE IF s[i] = c THEN i
    ELSE IndexFrom(s, c, i + 1)

\* index of the last occurrence of c in s, 0 if none
RECURSIVE LastIndex(_, _, _)
LastIndex(s, c, i) ==
    IF i = 0 THEN 0
    ELSE IF s[i] = c THEN i
    ELSE LastIndex(s, c, i - 1)

StartsWith(s, pre) == Len(pre) <= Len(s) /\ SubSeq(s, 1, Len(pre)) = pre

\* url.getScheme: the letters before the first ':' are the scheme; a ':' in
\* first position is an error; any other character ends the search
GetScheme(raw) ==
    LET i == FirstNonLetter(raw, 1) IN
    IF i <= Len(raw) /\ raw[i] = ":"
    THEN IF i = 1
         THEN [ok |-> FALSE, scheme |-> EmptyStr, rest |-> EmptyStr]
         ELSE [ok |-> TRUE, scheme |-> SubSeq(raw, 1, i - 1),
               rest |-> SubSeq(raw, i + 1, Len(raw))]
    ELSE [ok |-> TRUE, scheme |-> EmptyStr, rest |-> raw]

\* url.parseHost: a port after the last ':' must be digits (the alphabet has
\* none, so only the empty port is valid), and a host may not hold ' '
ParseHostOk(host) ==
    LET i == LastIndex(host, ":", Len(host)) IN
    /\ (i # 0 => i = Len(host))
    /\ \A k \in 1..Len(host) : host[k] # " "

\* url.Parse: [ok, scheme, host]
ParseURL(raw) ==
    LET g == GetScheme(raw) IN
    IF ~g.ok THEN [ok |-> FALSE, scheme |-> EmptyStr, host |-> EmptyStr]
    ELSE
    LET rest == g.rest
        seg  == SubSeq(rest, 1, IndexFrom(rest, "/", 1) - 1)
    IN
    IF ~StartsWith(rest, <<"/">>)
    THEN IF g.scheme # EmptyStr
         THEN [ok |-> TRUE, scheme |-> g.scheme, host |-> EmptyStr]   \* opaque
         ELSE IF \E k \in 1..Len(seg) : seg[k] = ":"
              THEN [ok |-> FALSE, scheme |-> EmptyStr, host |-> EmptyStr]
              ELSE [ok |-> TRUE, scheme |-> EmptyStr, host |-> EmptyStr]
    ELSE IF /\ (g.scheme # EmptyStr \/ ~StartsWith(rest, <<"/", "/", "/">>))
            /\ StartsWith(rest, <<"/", "/">>)
         THEN LET auth == SubSeq(rest, 3, IndexFrom(rest, "/", 3) - 1) IN
              IF ParseHostOk(auth)
              THEN [ok |-> TRUE, scheme |-> g.scheme,
                    host |-> IF auth # EmptyStr /\ auth[Len(auth)] = ":"
                             THEN SubSeq(auth, 1, Len(auth) - 1) ELSE auth]
              ELSE [ok |-> FALSE, scheme |-> EmptyStr, host |-> EmptyStr]
         ELSE [ok |-> TRUE, scheme |-> g.scheme, host |-> EmptyStr]

\* http.NewRequestWithContext(ctx, "GET", url, nil) fails when url does not parse
NewRequestOk(url) == ParseURL(url).ok

HttpSchemes == {<<"h", "t", "t", "p">>, <<"h", "t", "t", "p", "s">>}

\* http.DefaultClient.Do can reach a server only for an http(s) url with a host
Sendable(url) ==
    LET u == ParseURL(url) IN u.ok /\ u.scheme \in HttpSchemes /\ u.host # EmptyStr

StatusOK == 200
StatusNotFound == 404

\* response bodies
Bodies == {EmptyStr, <<"x">>}

\* what the network does with a request: the transport fails or answers, the
\* status of the answer, whether the body can be read to its end, the body
Envs == [net : BOOLEAN, status : {StatusOK, StatusNotFound},
         readOk : BOOLEAN, body : Bodies]

\* outcome of client.Do for the url getContents requests
DoFails(url, env) == ~Sendable(url) \/ ~env.net

-----------------------------------------------------------------------------
(* getContents, main.go:103-153 *)

NoErr == "nil"
Absent == [present |-> FALSE, text |-> EmptyStr]
Content(text) == [present |-> TRUE, text |-> text]
NoRequest == [sent |-> FALSE, url |-> EmptyStr]
Request(url) == [sent |-> TRUE, url |-> url]

FetchResult(content, err, req, warned) ==
    [content |-> content, err |-> err, requested |-> req, warned |-> warned]

\* main.go:104-109: the url the rest of getContents works on
ResolveRelativeNoBase(url, baseUrl) == url
ResolveRelative(url, baseUrl) ==
    IF url[1] = "/" THEN Concat(baseUrl, url) ELSE url

\* main.go:117-120: a url without scheme is requested over https
WithScheme(url) ==
    IF ParseURL(url).scheme = EmptyStr THEN Concat(HttpsPrefix, url) ELSE url

\* main.go:135-139: a status other than 200 is a warning, not an error
OnStatusAsError(res) == FetchResult(Absent, "status", res.requested, FALSE)
OnStatus(res) == FetchResult(Absent, NoErr, res.requested, TRUE)

\* main.go:142-145: io.ReadAll failed
OnReadError(req) == FetchResult(Absent, "read", req, FALSE)

\* main.go:104-106: the empty url
OnEmptyUrlSwallowed(baseUrl) == FetchResult(Absent, NoErr, NoRequest, TRUE)
OnEmptyUrl(baseUrl) == FetchResult(Absent, "empty", NoRequest, FALSE)

getContents(url, baseUrl, env) ==
    IF url = EmptyStr THEN OnEmptyUrl(baseUrl)
    ELSE
    LET u1 == ResolveRelative(url, baseUrl) IN
    IF ~ParseURL(u1).ok THEN FetchResult(Absent, "parse", NoRequest, FALSE)
    ELSE
    LET u2 == WithScheme(u1) IN
    IF ~NewRequestOk(u2) THEN FetchResult(Absent, NoErr, NoRequest, TRUE)
    ELSE IF DoFails(u2, env) THEN FetchResult(Absent, NoErr, Request(u2), TRUE)
    ELSE IF env.status # StatusOK
         THEN OnStatus(FetchResult(Absent, NoErr, Request(u2), FALSE))
    ELSE IF ~env.readOk THEN OnReadError(Request(u2))
    ELSE FetchResult(Content(env.body), NoErr, Request(u2), FALSE)

\* longest url and base url drawn from UrlAlphabet
MaxUrlLen == 3
MaxBaseLen == 1

FetchURLs == SeqsUpTo(UrlAlphabet, MaxUrlLen)
FetchBases == SeqsUpTo(UrlAlphabet, MaxBaseLen)
                \cup {Concat(HttpsPrefix, <<"h">>), <<"h">>, <<"h", ":">>}

IdleEnv == [net |-> FALSE, status |-> StatusOK, readOk |-> FALSE, body |-> EmptyStr]

FetchIdle ==
    /\ fpc = "idle"
    /\ fUrl = EmptyStr
    /\ fBase = EmptyStr
    /\ fEnv = IdleEnv
    /\ fRes = OnEmptyUrl(EmptyStr)

CallGetContents ==
    /\ fpc = "call"
    /\ fRes' = getContents(fUrl, fBase, fEnv)
    /\ fpc' = "done"
    /\ UNCHANGED <<fUrl, fBase, fEnv>>

-----------------------------------------------------------------------------
(* getStrings, main.go:244-314 *)

SQ == "'"
DQ == "\""
\* the backtick, written as a name
BT == "backtick"
BS == "\\"

\* main.go:252: char is one of the three quote characters
IsQuote(c) == c \in {SQ, DQ, BT}

\* the characters \b and \w of Go's regexp treat as word characters
LowerHex == {"a", "b", "c", "d", "e", "f"}
UpperHex == {"A", "B", "C", "D", "E", "F"}
Lower == LowerHex \cup
         {"g", "h", "i", "j", "k", "l", "m", "n", "o", "p", "q", "r", "s", "t",
          "u", "v", "w", "x", "y", "z"}
Upper == UpperHex \cup
         {"G", "H", "I", "J", "K", "L", "M", "N", "O", "P", "Q", "R", "S", "T",
          "U", "V", "W", "X", "Y", "Z"}
Digit == {"0", "1", "2", "3", "4", "5", "6", "7", "8", "9"}
WordChars == Lower \cup Upper \cup Digit \cup {"_"}

\* pat occurs in s starting at index i
MatchAt(s, pat, i) ==
    /\ i + Len(pat) - 1 <= Len(s)
    /\ SubSeq(s, i, i + Len(pat) - 1) = pat

\* regexp.MustCompile(pat).MatchString(s) for a literal pattern
ContainsSub(s, pat) == \E i \in 1..Len(s) : MatchAt(s, pat, i)

\* regexp.MustCompile of \bword\b, then MatchString(s)
ContainsWord(s, word) ==
    \E i \in 1..Len(s) :
        /\ MatchAt(s, word, i)
        /\ (i = 1 \/ s[i - 1] \notin WordChars)
        /\ (i + Len(word) - 1 = Len(s) \/ s[i + Len(word)] \notin WordChars)

\* main.go:296-305: function\( , \bvar\b and \breturn\b all match
IsMinified(s) ==
    /\ ContainsSub(s, <<"f", "u", "n", "c", "t", "i", "o", "n", "(">>)
    /\ ContainsWord(s, <<"v", "a", "r">>)
    /\ ContainsWord(s, <<"r", "e", "t", "u", "r", "n">>)

\* main.go:245-249: the scanner's locals, declared anew by every call
ScanStartStale == sLocals
ScanStart ==
    [inString |-> FALSE, currentString |-> EmptyStr, escaped |-> FALSE,
     result |-> <<>>]

\* main.go:254-257: a quote after a backslash, inside a string
EscapedDelimiterBare(st, c) ==
    [st EXCEPT !.currentString = st.currentString \o <<c>>,
               !.escaped = FALSE]
EscapedDelimiter(st, c) ==
    [st EXCEPT !.currentString = st.currentString \o <<BS, c>>,
               !.escaped = FALSE]

\* main.go:259-264: an unescaped quote inside a string ends it
CloseStringKeep(st) ==
    [st EXCEPT !.result = IF st.currentString # EmptyStr
                          THEN Append(st.result, st.currentString)
                          ELSE st.result,
               !.inString = FALSE]
CloseString(st) ==
    [st EXCEPT !.result = IF st.currentString # EmptyStr
                          THEN Append(st.result, st.currentString)
                          ELSE st.result,
               !.currentString = EmptyStr,
               !.inString = FALSE]

\* main.go:266-269: a quote outside a string starts one
OpenString(st) == [st EXCEPT !.inString = TRUE]

\* main.go:275-280: any other character inside a string
PlainChar(st, c) ==
    [st EXCEPT !.currentString = IF ~IsQuote(c)
                                 THEN st.currentString \o <<c>>
                                 ELSE st.currentString,
               !.escaped = FALSE]

\* main.go:251-281: the switch, for one character
ScanChar(st, c) ==
    IF IsQuote(c)
    THEN IF st.inString
         THEN IF st.escaped THEN EscapedDelimiter(st, c) ELSE CloseString(st)
         ELSE OpenString(st)
    ELSE IF c = BS
    THEN IF st.inString THEN [st EXCEPT !.escaped = TRUE] ELSE st
    ELSE IF st.inString THEN PlainChar(st, c)
    ELSE st

\* main.go:250-282: the loop over the text, from index i on
RECURSIVE ScanFrom(_, _, _)
ScanFrom(st, text, i) ==
    IF i > Len(text) THEN st
    ELSE ScanFrom(ScanChar(st, text[i]), text, i + 1)

\* main.go:284-289: an open string whose text ends with a backtick
FlushBacktick(st) ==
    IF st.inString /\ HasSuffix(st.currentString, <<BT>>)
    THEN [st EXCEPT !.result = Append(st.result, st.currentString),
                    !.currentString = EmptyStr,
                    !.inString = FALSE]
    ELSE st

\* main.go:291-311: the text ended inside a string
FlushTail(st, noisy) ==
    IF ~st.inString THEN st
    ELSE
    LET kept == IF noisy \/ ~IsMinified(st.currentString)
                THEN Append(st.result, st.currentString)
                ELSE st.result
    IN [st EXCEPT !.result = Append(kept, st.currentString)]

\* main.go:244-313: the locals when getStrings returns
ScanText(text, noisy) ==
    FlushTail(FlushBacktick(ScanFrom(ScanStart, text, 1)), noisy)

getStrings(text, noisy) == ScanText(text, noisy).result

\* most calls of getStrings in a row
MaxCalls == 3
\* longest text of a repeated call
MaxRepeatLen == 2

RepeatAlphabet == {SQ, BS, "a"}
RepeatTexts == SeqsUpTo(RepeatAlphabet, MaxRepeatLen)

\* no call has run: the locals do not exist yet
NoLocals ==
    [inString |-> FALSE, currentString |-> EmptyStr, escaped |-> FALSE,
     result |-> <<>>]

NoFirst ==
    [set |-> FALSE, text |-> EmptyStr, noisy |-> FALSE, res |-> <<>>,
     others |-> 0]

\* longest text drawn from TextAlphabet
MaxTextLen == 5
\* longest run of prose around the literals of a composed text
MaxProseLen == 1

TextAlphabet == {SQ, DQ, BT, BS, "a"}

\* prose: text without quote characters
ProseChars == {"x", BS}
Proses == SeqsUpTo(ProseChars, MaxProseLen)

\* values of the literals of a composed text
LiteralValues == {<<"a">>, <<"b">>, <<"a", "b">>}

Quoted(q, v) == <<q>> \o v \o <<q>>

NoShape == [three |-> FALSE, a |-> EmptyStr, b |-> EmptyStr, c |-> EmptyStr]

\* p0 'a' p1 "b" p2 BT c BT p3
ThreeLiterals(p0, a, p1, b, p2, c, p3) ==
    p0 \o Quoted(SQ, a) \o p1 \o Quoted(DQ, b) \o p2 \o Quoted(BT, c) \o p3

\* values around the escape of a composed literal: empty, a, it, s fine
EscValues ==
    {EmptyStr, <<"a">>, <<"i", "t">>, <<"s", " ", "f", "i", "n", "e">>}

\* characters placed after the backslash of a composed literal
EscapedChars == {SQ, DQ, BT, BS, "n"}

\* q v1 \ c v2 q: a literal holding one backslash followed by c
EscapedLiteral(q, v1, c, v2) == <<q>> \o v1 \o <<BS, c>> \o v2 \o <<q>>

\* fragments that all three patterns of main.go:296-298 match:
\* function(var return, and return var function(
MinifiedFragments ==
    {<<"f", "u", "n", "c", "t", "i", "o", "n", "(", "v", "a", "r", " ",
       "r", "e", "t", "u", "r", "n">>,
     <<"r", "e", "t", "u", "r", "n", " ", "v", "a", "r", " ",
       "f", "u", "n", "c", "t", "i", "o", "n", "(">>}

\* what follows the last, unclosed quote of a composed text: the minified
\* fragments; function(vars return, where var is no standalone word;
\* function var return, without function( ; a letter; nothing
TailFragments ==
    MinifiedFragments \cup
    {<<"f", "u", "n", "c", "t", "i", "o", "n", "(", "v", "a", "r", "s", " ",
       "r", "e", "t", "u", "r", "n">>,
     <<"f", "u", "n", "c", "t", "i", "o", "n", " ", "v", "a", "r", " ",
       "r", "e", "t", "u", "r", "n">>,
     <<"a">>, EmptyStr}

\* p q f: prose, then a quote that is never closed, then the fragment f
Unterminated(p, q, f) == p \o <<q>> \o f

StringsIdle ==
    /\ spc = "idle"
    /\ sText = EmptyStr
    /\ sNoisy = FALSE
    /\ sShape = NoShape
    /\ sRes = <<>>
    /\ sLocals = NoLocals
    /\ sCalls = 0
    /\ sFirst = NoFirst

\* a text over TextAlphabet
FreeInput ==
    /\ sText \in SeqsUpTo(TextAlphabet, MaxTextLen)
    /\ sShape = NoShape

\* a text holding 'a', "b" and a backtick-quoted c with prose around them
ThreeLiteralInput ==
    \E a \in LiteralValues, b \in LiteralValues, c \in LiteralValues :
    \E p0 \in Proses, p1 \in Proses, p2 \in Proses, p3 \in Proses :
        /\ sText = ThreeLiterals(p0, a, p1, b, p2, c, p3)
        /\ sShape = [three |-> TRUE, a |-> a, b |-> b, c |-> c]

\* a text holding one literal with a backslash escape in it
EscapedInput ==
    \E q \in {SQ, DQ, BT}, c \in EscapedChars :
    \E v1 \in EscValues, v2 \in EscValues :
        /\ sText = EscapedLiteral(q, v1, c, v2)
        /\ sShape = NoShape

\* a text that ends inside a string
TailInput ==
    \E p \in Proses, q \in {SQ, DQ, BT}, f \in TailFragments :
        /\ sText = Unterminated(p, q, f)
        /\ sShape = NoShape

CallGetStrings ==
    /\ spc = "call"
    /\ sRes' = getStrings(sText, sNoisy)
    /\ sLocals' = ScanText(sText, sNoisy)
    /\ sCalls' = sCalls + 1
    /\ sFirst' = IF ~sFirst.set
                 THEN [set |-> TRUE, text |-> sText, noisy |-> sNoisy,
                       res |-> getStrings(sText, sNoisy), others |-> 0]
                 ELSE IF sFirst.text = sText /\ sFirst.noisy = sNoisy
                 THEN sFirst
                 ELSE [sFirst EXCEPT !.others = 1]
    /\ spc' = "done"
    /\ UNCHANGED <<sText, sNoisy, sShape>>

\* main.go:471-481: the caller goes on to its next call of getStrings
NextCall ==
    /\ spc = "done"
    /\ sCalls < MaxCalls
    /\ sText' \in RepeatTexts
    /\ sNoisy' \in BOOLEAN
    /\ spc' = "call"
    /\ UNCHANGED <<sShape, sRes, sLocals, sCalls, sFirst>>

-----------------------------------------------------------------------------
(* regexp as getSecrets uses it, main.go:350-352.  A compiled pattern is a *)
(* sequence of items; a match is what a backtracking search finds first    *)
(* (Go's leftmost-first rule), greedy repetitions trying their longest run *)
(* first.                                                                  *)

\* for + and *: no text of the model is this long
Unbounded == 1000

\* \s
SpaceChars == {" ", "\t", "\n", "\r", "\f"}

NoItems == <<>>

\* a literal run of characters
Lit(str) ==
    [k |-> "lit", str |-> str, set |-> {}, neg |-> FALSE, min |-> 1,
     max |-> 1, sub |-> NoItems, alt |-> NoItems]
\* [set]{min,max}
Cls(set, min, max) ==
    [k |-> "cls", str |-> EmptyStr, set |-> set, neg |-> FALSE, min |-> min,
     max |-> max, sub |-> NoItems, alt |-> NoItems]
\* [^set]{min,max}; the dot is [^\n]
NotCls(set, min, max) ==
    [k |-> "cls", str |-> EmptyStr, set |-> set, neg |-> TRUE, min |-> min,
     max |-> max, sub |-> NoItems, alt |-> NoItems]
\* (sub)?
Opt(sub) ==
    [k |-> "opt", str |-> EmptyStr, set |-> {}, neg |-> FALSE, min |-> 0,
     max |-> 1, sub |-> sub, alt |-> NoItems]
\* (sub|alt)
Alt(sub, alt) ==
    [k |-> "alt", str |-> EmptyStr, set |-> {}, neg |-> FALSE, min |-> 1,
     max |-> 1, sub |-> sub, alt |-> alt]
\* \b
WordB ==
    [k |-> "wb", str |-> EmptyStr, set |-> {}, neg |-> FALSE, min |-> 0,
     max |-> 0, sub |-> NoItems, alt |-> NoItems]
\* $ without the multi-line flag: the end of the text
Eot ==
    [k |-> "eot", str |-> EmptyStr, set |-> {}, neg |-> FALSE, min |-> 0,
     max |-> 0, sub |-> NoItems, alt |-> NoItems]
\* ^ without the multi-line flag: the start of the text
Bot ==
    [k |-> "bot", str |-> EmptyStr, set |-> {}, neg |-> FALSE, min |-> 0,
     max |-> 0, sub |-> NoItems, alt |-> NoItems]

InClass(it, c) == IF it.neg THEN c \notin it.set ELSE c \in it.set

\* \b holds between s[i-1] and s[i] when exactly one is a word character
AtWordBoundary(s, i) ==
    LET before == i > 1 /\ i - 1 <= Len(s) /\ s[i - 1] \in WordChars
        after == i >= 1 /\ i <= Len(s) /\ s[i] \in WordChars
    IN before # after

\* the least and the greatest element of a non-empty set of integers
Least(S) == CHOOSE x \in S : \A y \in S : x <= y
Greatest(S) == CHOOSE x \in S : \A y \in S : x >= y

\* the longest run of class characters from s[i] on, at most it.max long
RunLen(it, s, i) ==
    LET last == IF i + it.max - 1 < Len(s) THEN i + it.max - 1 ELSE Len(s)
        bad == {j \in i..last : ~InClass(it, s[j])}
    IN IF bad = {} THEN last - i + 1 ELSE Least(bad) - i

\* the index after the first match of items that starts at s[i]; 0 if none
RECURSIVE MatchItems(_, _, _)
MatchItems(items, s, i) ==
    IF Len(items) = 0 THEN i
    ELSE
    LET it == Head(items)
        rest == Tail(items)
    IN CASE it.k = "lit" ->
              IF i <= Len(s) /\ s[i] = it.str[1] /\ MatchAt(s, it.str, i)
              THEN MatchItems(rest, s, i + Len(it.str))
              ELSE 0
         [] it.k = "cls" ->
\* a greedy repetition: the longest run after which the rest matches
              LET n == RunLen(it, s, i)
                  ks == {k \in it.min..n : MatchItems(rest, s, i + k) # 0}
              IN IF ks = {} THEN 0
                 ELSE MatchItems(rest, s, i + Greatest(ks))
         [] it.k = "opt" ->
              LET r == MatchItems(it.sub \o rest, s, i)
              IN IF r # 0 THEN r ELSE MatchItems(rest, s, i)
         [] it.k = "alt" ->
              LET r == MatchItems(it.sub \o rest, s, i)
              IN IF r # 0 THEN r ELSE MatchItems(it.alt \o rest, s, i)
         [] it.k = "wb" ->
              IF AtWordBoundary(s, i) THEN MatchItems(rest, s, i) ELSE 0
         [] it.k = "eot" ->
              IF i = Len(s) + 1 THEN MatchItems(rest, s, i) ELSE 0
         [] it.k = "bot" ->
              IF i = 1 THEN MatchItems(rest, s, i) ELSE 0

\* the places from s[i] on where a match starts
MatchStarts(items, s, i) == {j \in i..Len(s) : MatchItems(items, s, j) > j}

\* re.FindAllString(s, -1): the leftmost matches, none overlapping another.
\* Every pattern of the table consumes at least one character.
RECURSIVE FindFrom(_, _, _, _)
FindFrom(items, s, i, acc) ==
    LET starts == MatchStarts(items, s, i)
    IN IF starts = {} THEN acc
       ELSE LET j == Least(starts)
                e == MatchItems(items, s, j)
            IN FindFrom(items, s, e, Append(acc, SubSeq(s, j, e - 1)))

\* only a match that starts the text
FindAllStringAtStart(items, s) ==
    IF MatchItems(items, s, 1) > 1
    THEN <<SubSeq(s, 1, MatchItems(items, s, 1) - 1)>>
    ELSE <<>>
FindAllString(items, s) == FindFrom(items, s, 1, <<>>)

-----------------------------------------------------------------------------
(* The patterns of secretRegex, main.go:51-91, and the ones getSecrets     *)
(* adds, main.go:327-341, compiled.                                        *)

\* main.go:51-91: the package-level table, label to pattern
BaseTable ==
    ("Google API Key" :> "ReGoogleApiKey")
    @@ ("Google OAuth 2.0 Access Token" :> "ReGoogleOauth20AccessToken")
    @@ ("GitHub Personal Access Token (Classic)" :> "ReGithubPersonalAccessTokenClassic")
    @@ ("GitHub Personal Access Token (Fine-Grained" :> "ReGithubPersonalAccessTokenFineGrained")
    @@ ("GitHub OAuth 2.0 Access Token" :> "ReGithubOauth20AccessToken")
    @@ ("GitHub User-to-Server Access Token" :> "ReGithubUserToServerAccessToken")
    @@ ("GitHub Server-to-Server Access Token" :> "ReGithubServerToServerAccessToken")
    @@ ("GitHub Refresh Token" :> "ReGithubRefreshToken")
    @@ ("Foursquare Secret Key" :> "ReFoursquareSecretKey")
    @@ ("Picatic API Key" :> "RePicaticApiKey")
    @@ ("Stripe Standard API Key" :> "ReStripeStandardApiKey")
    @@ ("Stripe Restricted API Key" :> "ReStripeRestrictedApiKey")
    @@ ("Square Access Token" :> "ReSquareAccessToken")
    @@ ("Square OAuth Secret" :> "ReSquareOauthSecret")
    @@ ("Paypal / Braintree Access Token" :> "RePaypalBraintreeAccessToken")
    @@ ("Amazon Marketing Services Auth Token" :> "ReAmazonMarketingServicesAuthToken")
    @@ ("Mailgun API Key" :> "ReMailgunApiKey")
    @@ ("MailChimp" :> "ReMailchimp")
    @@ ("Slack OAuth v2 Bot Access Token" :> "ReSlackOauthV2BotAccessToken")
    @@ ("Slack OAuth v2 User Access Token" :> "ReSlackOauthV2UserAccessToken")
    @@ ("Slack OAuth v2 Configuration Token" :> "ReSlackOauthV2ConfigurationToken")
    @@ ("Slack OAuth v2 Refresh Token" :> "ReSlackOauthV2RefreshToken")
    @@ ("Slack Webhook" :> "ReSlackWebhook")
    @@ ("AWS Access Key ID" :> "ReAwsAccessKeyId")
    @@ ("Google Cloud Platform OAuth 2.0" :> "ReGoogleCloudPlatformOauth20")
    @@ ("Heroku OAuth 2.0" :> "ReHerokuOauth20")
    @@ ("Facebook Access Token" :> "ReFacebookAccessToken")
    @@ ("Facebook OAuth" :> "ReFacebookOauth")
    @@ ("Twitter Username" :> "ReTwitterUsername")
    @@ ("Twitter Access Token" :> "ReTwitterAccessToken")
    @@ ("Cloudinary URL" :> "ReCloudinaryUrl")
    @@ ("Firebase URL" :> "ReFirebaseUrl")
    @@ ("RSA Private Key" :> "ReRsaPrivateKey")
    @@ ("DSA Private Key" :> "ReDsaPrivateKey")
    @@ ("EC Private Key" :> "ReEcPrivateKey")
    @@ ("PGP Private Key" :> "RePgpPrivateKey")
    @@ ("Generic API Key" :> "ReGenericApiKey")
    @@ ("Password in URL" :> "RePasswordInUrl")
    @@ ("Slack Webhook URL" :> "ReSlackWebhookUrl")

\* main.go:334-341: the entries a noisy call writes
NoisyEntries ==
    ("Google OAuth 2.0 Auth Code" :> "ReGoogleOauth20AuthCode")
    @@ ("Google Cloud Platform API Key" :> "ReGoogleCloudPlatformApiKey")
    @@ ("Heroku API Key" :> "ReHerokuApiKey")
    @@ ("Google OAuth 2.0 Refresh Token" :> "ReGoogleOauth20RefreshToken")
    @@ ("Generic Secret" :> "ReGenericSecret")
    @@ ("Twilio" :> "ReTwilio")

\* main.go:351: regexp.MustCompile of a pattern of the table as declared
CompileBase(id) ==
    CASE \* main.go:52
         id = "ReGoogleApiKey" ->
          << Lit(<<"A", "I", "z", "a">>),
             Cls(Digit \cup Upper \cup Lower \cup {"-", "_"}, 35, 35) >>
      [] \* main.go:53
         id = "ReGoogleOauth20AccessToken" ->
          << Lit(<<"y", "a", "2", "9">>),
             NotCls({"\n"}, 1, 1),
             Cls(Digit \cup Upper \cup Lower \cup {"-", "_"}, 1, Unbounded) >>
      [] \* main.go:54
         id = "ReGithubPersonalAccessTokenClassic" ->
          << Lit(<<"g", "h", "p", "_">>),
             Cls(Lower \cup Upper \cup Digit, 36, 36) >>
      [] \* main.go:55
         id = "ReGithubPersonalAccessTokenFineGrained" ->
          << Lit(<<"g", "i", "t", "h", "u", "b", "_", "p", "a", "t", "_">>),
             Cls(Lower \cup Upper \cup Digit, 22, 22),
             Lit(<<"_">>),
             Cls(Lower \cup Upper \cup Digit, 59, 59) >>
      [] \* main.go:56
         id = "ReGithubOauth20AccessToken" ->
          << Lit(<<"g", "h", "o", "_">>),
             Cls(Lower \cup Upper \cup Digit, 36, 36) >>
      [] \* main.go:57
         id = "ReGithubUserToServerAccessToken" ->
          << Lit(<<"g", "h", "u", "_">>),
             Cls(Lower \cup Upper \cup Digit, 36, 36) >>
      [] \* main.go:58
         id = "ReGithubServerToServerAccessToken" ->
          << Lit(<<"g", "h", "s", "_">>),
             Cls(Lower \cup Upper \cup Digit, 36, 36) >>
      [] \* main.go:59
         id = "ReGithubRefreshToken" ->
          << Lit(<<"g", "h", "r", "_">>),
             Cls(Lower \cup Upper \cup Digit, 36, 36) >>
      [] \* main.go:60
         id = "ReFoursquareSecretKey" ->
          << Lit(<<"R", "_">>),
             Cls(Digit \cup LowerHex, 32, 32) >>
      [] \* main.go:61
         id = "RePicaticApiKey" ->
          << Lit(<<"s", "k", "_", "l", "i", "v", "e", "_">>),
             Cls(Digit \cup Lower, 32, 32) >>
      [] \* main.go:62
         id = "ReStripeStandardApiKey" ->
          << Lit(<<"s", "k", "_", "l", "i", "v", "e", "_">>),
             Cls(Digit \cup Lower \cup Upper, 24, 24) >>
      [] \* main.go:63
         id = "ReStripeRestrictedApiKey" ->
          << Lit(<<"s", "k", "_", "l", "i", "v", "e", "_">>),
             Cls(Digit \cup Lower \cup Upper, 24, 24) >>
      [] \* main.go:64
         id = "ReSquareAccessToken" ->
          << Lit(<<"s", "q", "O", "a", "t", "p", "-">>),
             Cls(Digit \cup Upper \cup Lower \cup {"-", "_"}, 22, 22) >>
      [] \* main.go:65
         id = "ReSquareOauthSecret" ->
          << Lit(<<"q", "0", "c", "s", "p", "-">>),
             Cls(Digit \cup Upper \cup Lower \cup {" ", "-", "_"}, 43, 43) >>
      [] \* main.go:66
         id = "RePaypalBraintreeAccessToken" ->
          << Lit(<<"a", "c", "c", "e", "s", "s", "_", "t", "o", "k", "e", "n", ",", "p", "r", "o", "d", "u", "c", "t", "i", "o", "n">>),
             Eot,
             Cls(Digit \cup Lower, 1, 1),
             Lit(<<"{", "1", "6", "1">>),
             Cls(Digit \cup {"a", ","}, 32, 32) >>
      [] \* main.go:67
         id = "ReAmazonMarketingServicesAuthToken" ->
          << Lit(<<"a", "m", "z", "n">>),
             NotCls({"\n"}, 1, 1),
             Lit(<<"m", "w", "s">>),
             NotCls({"\n"}, 1, 1),
             Cls(Digit \cup LowerHex, 8, 8),
             Lit(<<"-">>),
             Cls(Digit \cup LowerHex, 4, 4),
             Lit(<<"-", "1", "0", "-", "9", "a", "-", "f">>),
             Cls({"1"}, 4, 4),
             Lit(<<"-">>),
             Cls(Digit \cup {"a", ","}, 4, 4),
             Lit(<<"-">>),
             Cls(Digit \cup LowerHex, 12, 12) >>
      [] \* main.go:68
         id = "ReMailgunApiKey" ->
          << Lit(<<"k", "e", "y", "-">>),
             Cls(Digit \cup Lower \cup Upper, 32, 32) >>
      [] \* main.go:69
         id = "ReMailchimp" ->
          << Cls(Digit \cup LowerHex, 32, 32),
             Lit(<<"-", "u", "s">>),
             Cls(Digit, 1, 2) >>
      [] \* main.go:70
         id = "ReSlackOauthV2BotAccessToken" ->
          << Lit(<<"x", "o", "x", "b", "-">>),
             Cls(Digit, 11, 11),
             Lit(<<"-">>),
             Cls(Digit, 11, 11),
             Lit(<<"-">>),
             Cls(Digit \cup Lower \cup Upper, 24, 24) >>
      [] \* main.go:71
         id = "ReSlackOauthV2UserAccessToken" ->
          << Lit(<<"x", "o", "x", "p", "-">>),
             Cls(Digit, 11, 11),
             Lit(<<"-">>),
             Cls(Digit, 11, 11),
             Lit(<<"-">>),
             Cls(Digit \cup Lower \cup Upper, 24, 24) >>
      [] \* main.go:72
         id = "ReSlackOauthV2ConfigurationToken" ->
          << Lit(<<"x", "o", "x", "e">>),
             NotCls({"\n"}, 1, 1),
             Lit(<<"x", "o", "x", "p", "-", "1", "-">>),
             Cls(Digit \cup Lower \cup Upper, 166, 166) >>
      [] \* main.go:73
         id = "ReSlackOauthV2RefreshToken" ->
          << Lit(<<"x", "o", "x", "e", "-", "1", "-">>),
             Cls(Digit \cup Lower \cup Upper, 147, 147) >>
      [] \* main.go:74
         id = "ReSlackWebhook" ->
          << Lit(<<"T">>),
             Cls(Lower \cup Upper \cup Digit \cup {"_"}, 8, 8),
             Lit(<<"/", "B">>),
             Cls(Lower \cup Upper \cup Digit \cup {"_"}, 8, 8),
             Lit(<<"/">>),
             Cls(Lower \cup Upper \cup Digit \cup {"_"}, 24, 24) >>
      [] \* main.go:75
         id = "ReAwsAccessKeyId" ->
          << Lit(<<"A", "K", "I", "A">>),
             Cls(Digit \cup Upper, 16, 16) >>
      [] \* main.go:76
         id = "ReGoogleCloudPlatformOauth20" ->
          << Cls(Digit \cup LowerHex \cup UpperHex, 8, 8),
             Lit(<<"-">>),
             Cls(Digit \cup LowerHex \cup UpperHex, 4, 4),
             Lit(<<"-">>),
             Cls(Digit \cup LowerHex \cup UpperHex, 12, 12) >>
      [] \* main.go:77
         id = "ReHerokuOauth20" ->
          << Cls(Digit \cup LowerHex \cup UpperHex, 8, 8),
             Lit(<<"-">>),
             Cls(Digit \cup LowerHex \cup UpperHex, 4, 4),
             Lit(<<"-">>),
             Cls(Digit \cup LowerHex \cup UpperHex, 12, 12) >>
      [] \* main.go:78
         id = "ReFacebookAccessToken" ->
          << Lit(<<"E", "A", "A", "C", "E", "d", "E", "o", "s", "e", "0", "c", "B", "A">>),
             Cls(Digit \cup Upper \cup Lower, 1, Unbounded) >>
      [] \* main.go:79
         id = "ReFacebookOauth" ->
          << Cls({"f", "|", "F"}, 1, 1),
             Cls({"a", "|", "A"}, 1, 1),
             Cls({"c", "|", "C"}, 1, 1),
             Cls({"e", "|", "E"}, 1, 1),
             Cls({"b", "|", "B"}, 1, 1),
             Cls({"o", "|", "O"}, 1, 1),
             Cls({"o", "|", "O"}, 1, 1),
             Cls({"k", "|", "K"}, 1, 1),
             NotCls({"\n"}, 0, Unbounded),
             Cls({"'", "|", "\""}, 1, 1),
             Cls(Digit \cup LowerHex, 32, 32),
             Cls({"'", "|", "\""}, 1, 1) >>
      [] \* main.go:80
         id = "ReTwitterUsername" ->
          << Lit(<<"/">>),
             Alt(<<Bot>>, <<NotCls(WordChars \cup {"@"}, 1, 1)>>),
             Lit(<<"@">>),
             Cls(WordChars, 1, 15),
             WordB,
             Lit(<<"/">>) >>
      [] \* main.go:81
         id = "ReTwitterAccessToken" ->
          << Cls((Digit \ {"0"}), 1, 1),
             Cls(Digit, 1, Unbounded),
             Lit(<<"-">>),
             Cls(Digit \cup Lower \cup Upper, 40, 40) >>
      [] \* main.go:82
         id = "ReCloudinaryUrl" ->
          << Lit(<<"c", "l", "o", "u", "d", "i", "n", "a", "r", "y", ":", "/", "/">>),
             NotCls({"\n"}, 0, Unbounded) >>
      [] \* main.go:83
         id = "ReFirebaseUrl" ->
          << NotCls({"\n"}, 0, Unbounded),
             Lit(<<"f", "i", "r", "e", "b", "a", "s", "e", "i", "o", ".", "c", "o", "m">>) >>
      [] \* main.go:84
         id = "ReRsaPrivateKey" ->
          << Lit(<<"-", "-", "-", "-", "-", "B", "E", "G", "I", "N", " ", "R", "S", "A", " ", "P", "R", "I", "V", "A", "T", "E", " ", "K", "E", "Y", "-", "-", "-", "-", "-">>) >>
      [] \* main.go:85
         id = "ReDsaPrivateKey" ->
          << Lit(<<"-", "-", "-", "-", "-", "B", "E", "G", "I", "N", " ", "D", "S", "A", " ", "P", "R", "I", "V", "A", "T", "E", " ", "K", "E", "Y", "-", "-", "-", "-", "-">>) >>
      [] \* main.go:86
         id = "ReEcPrivateKey" ->
          << Lit(<<"-", "-", "-", "-", "-", "B", "E", "G", "I", "N", " ", "E", "C", " ", "P", "R", "I", "V", "A", "T", "E", " ", "K", "E", "Y", "-", "-", "-", "-", "-">>) >>
      [] \* main.go:87
         id = "RePgpPrivateKey" ->
          << Lit(<<"-", "-", "-", "-", "-", "B", "E", "G", "I", "N", " ", "P", "G", "P", " ", "P", "R", "I", "V", "A", "T", "E", " ", "K", "E", "Y", " ", "B", "L", "O", "C", "K", "-", "-", "-", "-", "-">>) >>
      [] \* main.go:88
         id = "ReGenericApiKey" ->
          << Cls({"a", "|", "A"}, 1, 1),
             Cls({"p", "|", "P"}, 1, 1),
             Cls({"i", "|", "I"}, 1, 1),
             Cls({"_"}, 0, 1),
             Cls({"k", "|", "K"}, 1, 1),
             Cls({"e", "|", "E"}, 1, 1),
             Cls({"y", "|", "Y"}, 1, 1),
             NotCls({"\n"}, 0, Unbounded),
             Cls({"'", "|", "\""}, 1, 1),
             Cls(Digit \cup Lower \cup Upper, 32, 45),
             Cls({"'", "|", "\""}, 1, 1) >>
      [] \* main.go:89
         id = "RePasswordInUrl" ->
          << Cls(Lower \cup Upper, 3, 10),
             Lit(<<":", "\\", "/">>),
             NotCls({"\\", "s", ":", "@"}, 3, 20),
             Lit(<<":">>),
             NotCls({"\\", "s", ":", "@"}, 3, 20),
             Lit(<<"@">>),
             NotCls({"\n"}, 1, 100),
             Cls(SpaceChars \cup {"\"", "'"}, 1, 1) >>
      [] \* main.go:90
         id = "ReSlackWebhookUrl" ->
          << Lit(<<"h", "t", "t", "p", "s", ":", "/", "/", "h", "o", "o", "k", "s">>),
             NotCls({"\n"}, 1, 1),
             Lit(<<"s", "l", "a", "c", "k">>),
             NotCls({"\n"}, 1, 1),
             Lit(<<"c", "o", "m", "/", "s", "e", "r", "v", "i", "c", "e", "s", "/", "T">>),
             Cls(Lower \cup Upper \cup Digit \cup {"_"}, 8, 8),
             Lit(<<"/", "B">>),
             Cls(Lower \cup Upper \cup Digit \cup {"_"}, 8, 8),
             Lit(<<"/">>),
             Cls(Lower \cup Upper \cup Digit \cup {"_"}, 24, 24) >>

\* main.go:351: regexp.MustCompile of a pattern getSecrets adds
CompileAdded(id) ==
    CASE \* main.go:329
         id = "ReURLNoisy" ->
          << Opt(<<Lit(<<"h", "t", "t", "p">>), Cls({"s"}, 0, 1), Lit(<<":", "/", "/">>), NotCls({"\n"}, 1, 1)>>),
             Opt(<<Lit(<<"w", "w", "w", ".">>)>>),
             Cls(Lower \cup Upper \cup Digit \cup {"-", "@", ":", "%", ".", "_", "+", "~", "#", "="}, 2, 256),
             Lit(<<".">>),
             Cls(Lower, 2, 6),
             WordB,
             Cls(Lower \cup Upper \cup Digit \cup {"-", "@", ":", "%", "_", "+", ".", "~", "#", "?", "&", "/", "="}, 0, Unbounded) >>
      [] \* main.go:332
         id = "ReURLStrict" ->
          << Lit(<<"h", "t", "t", "p">>),
             Cls({"s"}, 0, 1),
             Lit(<<":", "/", "/">>),
             Opt(<<Lit(<<"w", "w", "w", ".">>)>>),
             Cls(Lower \cup Upper \cup Digit \cup {"-", "@", ":", "%", ".", "_", "+", "~", "#", "="}, 1, 256),
             Lit(<<".">>),
             Cls(Lower \cup Upper \cup Digit \cup {"(", ")"}, 1, 6),
             WordB,
             Cls(Lower \cup Upper \cup Digit \cup {"-", "(", ")", "@", ":", "%", "_", "+", ".", "~", "#", "?", "&", "/", "="}, 0, Unbounded) >>
      [] \* main.go:335
         id = "ReGoogleOauth20AuthCode" ->
          << Lit(<<"4", "/">>),
             Cls(Digit \cup Upper \cup Lower \cup {"-", "_"}, 1, Unbounded) >>
      [] \* main.go:336
         id = "ReGoogleCloudPlatformApiKey" ->
          << Cls(Upper \cup Lower \cup Digit \cup {"_"}, 21, 21),
             Lit(<<"-", "-">>),
             Cls(Upper \cup Lower \cup Digit \cup {"_"}, 8, 8) >>
      [] \* main.go:337
         id = "ReHerokuApiKey" ->
          << Cls(Digit \cup LowerHex \cup UpperHex, 8, 8),
             Lit(<<"-">>),
             Cls(Digit \cup LowerHex \cup UpperHex, 4, 4),
             Lit(<<"-">>),
             Cls(Digit \cup LowerHex \cup UpperHex, 4, 4),
             Lit(<<"-">>),
             Cls(Digit \cup LowerHex \cup UpperHex, 4, 4),
             Lit(<<"-">>),
             Cls(Digit \cup LowerHex \cup UpperHex, 12, 12) >>
      [] \* main.go:338
         id = "ReGoogleOauth20RefreshToken" ->
          << Lit(<<"1", "/">>),
             Alt(<<Cls(Digit \cup Upper \cup Lower \cup {"-"}, 43, 43)>>, <<Cls(Digit \cup Upper \cup Lower \cup {"-"}, 64, 64)>>) >>
      [] \* main.go:339
         id = "ReGenericSecret" ->
          << Cls({"s", "|", "S"}, 1, 1),
             Cls({"e", "|", "E"}, 1, 1),
             Cls({"c", "|", "C"}, 1, 1),
             Cls({"r", "|", "R"}, 1, 1),
             Cls({"e", "|", "E"}, 1, 1),
             Cls({"t", "|", "T"}, 1, 1),
             NotCls({"\n"}, 0, Unbounded),
             Cls({"'", "|", "\""}, 1, 1),
             Cls(Digit \cup Lower \cup Upper, 32, 45),
             Cls({"'", "|", "\""}, 1, 1) >>
      [] \* main.go:340
         id = "ReTwilio" ->
          << Lit(<<"5", "5">>),
             Cls(Digit \cup LowerHex \cup UpperHex, 32, 32) >>

\* main.go:351: regexp.MustCompile of the pattern named id
Compile(id) ==
    IF id \in {"ReURLNoisy", "ReURLStrict"}
              \cup {NoisyEntries[l] : l \in DOMAIN NoisyEntries}
    THEN CompileAdded(id)
    ELSE CompileBase(id)

-----------------------------------------------------------------------------
(* getSecrets, main.go:325-369 *)

URLLabel == "URL"
GitHubClassicLabel == "GitHub Personal Access Token (Classic)"

\* main.go:327-333: the urls flag writes the URL entry, noisy or strict
WriteURLOnce(table, fl) ==
    IF fl.urls /\ fl.noisy THEN table @@ (URLLabel :> "ReURLNoisy")
    ELSE IF fl.urls THEN table @@ (URLLabel :> "ReURLStrict")
    ELSE table
WriteURL(table, fl) ==
    IF fl.urls /\ fl.noisy THEN (URLLabel :> "ReURLNoisy") @@ table
    ELSE IF fl.urls THEN (URLLabel :> "ReURLStrict") @@ table
    ELSE table

\* main.go:334-341: the noisy flag writes six more entries
WriteNoisy(table, fl) == IF fl.noisy THEN NoisyEntries @@ table ELSE table

\* main.go:327-341: what a call leaves in secretRegex
SetTable(table, fl) == WriteNoisy(WriteURL(table, fl), fl)

\* main.go:349: the empty map
NoResults == [l \in {} |-> <<>>]

\* main.go:355, 363: results[description] = append(results[description], match)
AddMatch(results, label, match) ==
    IF label \in DOMAIN results
    THEN [results EXCEPT ![label] = Append(@, match)]
    ELSE (label :> <<match>>) @@ results

\* main.go:354-365: one match, kept when noisy or when not minified code
KeepOrDropEager(results, label, match, noisy) ==
    IF noisy \/ ~IsMinified(match)
    THEN AddMatch(results, label, match)
    ELSE IF label \in DOMAIN results THEN results
    ELSE (label :> <<>>) @@ results
KeepOrDrop(results, label, match, noisy) ==
    IF noisy \/ ~IsMinified(match)
    THEN AddMatch(results, label, match)
    ELSE results

\* main.go:353-366: the loop over the matches of one pattern, from match k on
RECURSIVE AppendMatches(_, _, _, _, _)
AppendMatches(results, label, matches, k, noisy) ==
    IF k > Len(matches) THEN results
    ELSE AppendMatches(KeepOrDrop(results, label, matches[k], noisy),
                       label, matches, k + 1, noisy)

\* main.go:350-367: the loop over the table.  Go ranges over a map in no
\* fixed order; every label writes its own key, so the order is immaterial.
RECURSIVE RangeTable(_, _, _, _, _)
RangeTable(table, labels, text, noisy, results) ==
    IF labels = {} THEN results
    ELSE LET description == CHOOSE l \in labels : TRUE
             matches == FindAllString(Compile(table[description]), text)
         IN RangeTable(table, labels \ {description}, text, noisy,
                       AppendMatches(results, description, matches, 1, noisy))

\* getSecrets(text, flags) on the package-level table as it stands
getSecrets(table, text, fl) ==
    LET written == SetTable(table, fl)
    IN [table |-> written,
        results |-> RangeTable(written, DOMAIN written, text, fl.noisy,
                               NoResults)]

\* most calls of getSecrets in a row
MaxSecretCalls == 2
\* goroutines of the pool inside getSecrets at once
NumGoroutines == 2

Goroutines == 1..NumGoroutines

UrlHttps == <<"h", "t", "t", "p", "s", ":", "/", "/", "e", "x", "a", "m", "p", "l", "e", ".", "c", "o", "m">>
BareDomain == <<"e", "x", "a", "m", "p", "l", "e", ".", "c", "o", "m">>
\* the token of TestGetSecrets
TokenDigits ==
    <<"g", "h", "p", "_", "1", "2", "3", "4", "5", "6", "7", "8", "9", "0", "2", "3", "4", "5", "6", "7", "8", "9", "0", "1", "2", "3", "4", "5", "6", "7", "8", "9", "0", "2", "3", "4", "5", "6", "7", "8">>
\* a token of letters and digits
TokenMixed ==
    <<"g", "h", "p", "_", "a", "B", "3", "a", "B", "3", "a", "B", "3", "a", "B", "3", "a", "B", "3", "a", "B", "3", "a", "B", "3", "a", "B", "3", "a", "B", "3", "a", "B", "3", "a", "B", "3", "a", "B", "3">>
Tokens == {TokenDigits, TokenMixed}
\* 55 and 32 hexadecimal digits: only the noisy Twilio pattern matches
TwilioLike ==
    <<"5", "5", "0", "1", "2", "3", "4", "5", "6", "7", "8", "9", "a", "b", "c", "d", "e", "f", "0", "1", "2", "3", "4", "5", "6", "7", "8", "9", "a", "b", "c", "d", "e", "f">>
\* a Cloudinary URL whose match holds function( , var and return
CloudinaryMinified ==
    <<"c", "l", "o", "u", "d", "i", "n", "a", "r", "y", ":", "/", "/", "f", "u", "n", "c", "t", "i", "o", "n", "(", "v", "a", "r", " ", "r", "e", "t", "u", "r", "n">>

\* what stands between the two URLs of a text
Separators == {<<",", " ">>, <<" ">>, <<"\n", "\t">>}
\* what stands before and after them: nothing, or words
UrlAround == {<<EmptyStr, EmptyStr>>, << <<"x", " ">>, <<",", " ", "x">> >>}

UrlText(p, sep, q) == p \o UrlHttps \o sep \o BareDomain \o q
UrlTexts == {UrlText(a[1], sep, a[2]) : a \in UrlAround, sep \in Separators}

\* what a token is embedded in: nothing, quotes, letters, words
TokenAround ==
    {<<EmptyStr, EmptyStr>>, << <<"\"">>, <<"\"">> >>, << <<"x">>, <<"x">> >>,
     << <<"i", "s", " ">>, <<" ", "a", "s">> >>}

TokenText(p, token, q) == p \o token \o q
TokenTexts == {TokenText(a[1], t, a[2]) : a \in TokenAround, t \in Tokens}

\* both URLs and the quoted token, as in TestGetSecrets
TestText ==
    UrlText(<<"x", " ">>, <<",", " ">>, <<" ">>)
        \o TokenText(<<"\"">>, TokenDigits, <<"\"">>)

SecretTexts ==
    UrlTexts \cup TokenTexts
        \cup {EmptyStr, TwilioLike, CloudinaryMinified, TestText}

SecretFlags == [urls : BOOLEAN, noisy : BOOLEAN]

NoPrev == [called |-> FALSE, urls |-> FALSE, noisy |-> FALSE]

SecretsIdle ==
    /\ secretRegex = BaseTable
    /\ gpc = "idle"
    /\ gText = EmptyStr
    /\ gFlags = [urls |-> FALSE, noisy |-> FALSE]
    /\ gRes = NoResults
    /\ gCalls = 0
    /\ gPrev = NoPrev
    /\ kpc = [i \in Goroutines |-> "idle"]
    /\ kLeft = [i \in Goroutines |-> 0]
    /\ kSeen = [i \in Goroutines |-> BaseTable]
    /\ gFatal = FALSE

\* one whole call of getSecrets, no other goroutine running
CallGetSecrets ==
    /\ gpc = "call"
    /\ secretRegex' = SetTable(secretRegex, gFlags)
    /\ gRes' = getSecrets(secretRegex, gText, gFlags).results
    /\ gCalls' = gCalls + 1
    /\ gpc' = "done"
    /\ UNCHANGED <<gText, gFlags, gPrev, kpc, kLeft, kSeen, gFatal>>

\* unnamed/part_000:108-110: the caller changes the flags and calls again
NextSecretsCall ==
    /\ gpc = "done"
    /\ gCalls < MaxSecretCalls
    /\ gText' \in SecretTexts
    /\ gFlags' \in SecretFlags
    /\ gPrev' = [called |-> TRUE, urls |-> gFlags.urls, noisy |-> gFlags.noisy]
    /\ gRes' = NoResults
    /\ gpc' = "call"
    /\ UNCHANGED <<secretRegex, gCalls, kpc, kLeft, kSeen, gFatal>>

\* main.go:435, 440: search calls getSecrets on the page, then on the
\* inline scripts
CallsPerSearch == 2

\* the texts the pool's goroutines search
RaceTexts == {TwilioLike, TestText}

\* main.go:327-341: goroutine i is inside an assignment to secretRegex
Writing(i) == kpc[i] = "writing"
\* main.go:350: goroutine i is inside its range over secretRegex
Ranging(i) == kpc[i] = "ranging"

\* two goroutines inside secretRegex at once, one of them writing it:
\* nothing in getSecrets, search or run orders the two accesses
Racing(i, j) == i # j /\ Writing(i) /\ (Writing(j) \/ Ranging(j))

\* main.go:435, 440: a pool goroutine enters getSecrets; with urls or noisy
\* on it starts on the assignments of main.go:327-341
EnterGetSecrets(i) ==
    /\ ~gFatal
    /\ kpc[i] = "ready"
    /\ kLeft[i] > 0
    /\ IF gFlags.urls \/ gFlags.noisy
       THEN /\ kpc' = [kpc EXCEPT ![i] = "writing"]
            /\ UNCHANGED kSeen
       ELSE /\ kpc' = [kpc EXCEPT ![i] = "ranging"]
            /\ kSeen' = [kSeen EXCEPT ![i] = secretRegex]
    /\ UNCHANGED <<secretRegex, gpc, gText, gFlags, gRes, gCalls, gPrev,
                   kLeft, gFatal>>

\* main.go:327-341 done, main.go:350 begun
WriteTable(i) ==
    /\ ~gFatal
    /\ Writing(i)
    /\ secretRegex' = SetTable(secretRegex, gFlags)
    /\ kSeen' = [kSeen EXCEPT ![i] = SetTable(secretRegex, gFlags)]
    /\ kpc' = [kpc EXCEPT ![i] = "ranging"]
    /\ UNCHANGED <<gpc, gText, gFlags, gRes, gCalls, gPrev, kLeft, gFatal>>

\* main.go:350-368: the range loop ends and getSecrets returns.  A loop
\* that ran while another goroutine wrote the map has ranged over the map
\* as it was or as it is now.
ReturnSecrets(i) ==
    /\ ~gFatal
    /\ Ranging(i)
    /\ \E table \in {kSeen[i], secretRegex} :
           gRes' = RangeTable(table, DOMAIN table, gText, gFlags.noisy,
                              NoResults)
    /\ gCalls' = gCalls + 1
    /\ kLeft' = [kLeft EXCEPT ![i] = @ - 1]
    /\ kpc' = [kpc EXCEPT ![i] = IF kLeft[i] = 1 THEN "done" ELSE "ready"]
    /\ UNCHANGED <<secretRegex, gpc, gText, gFlags, gPrev, kSeen, gFatal>>

\* the Go runtime finds the map written by one goroutine while another
\* writes or iterates it and aborts the process (fatal error: concurrent
\* map writes, or concurrent map iteration and map write)
RuntimeFatal ==
    /\ ~gFatal
    /\ \E i \in Goroutines, j \in Goroutines : Racing(i, j)
    /\ gFatal' = TRUE
    /\ UNCHANGED <<secretRegex, gpc, gText, gFlags, gRes, gCalls, gPrev,
                   kpc, kLeft, kSeen>>

-----------------------------------------------------------------------------
(* URLQueue: Push and Pop, main.go:27-47 *)

\* goroutines calling the queue concurrently
NumProcs == 3
\* calls to Push or Pop started in one run of the harness
MaxOps == 5

Procs == 1..NumProcs
NoHolder == 0

\* urls the harness pushes; "" is the value main.go:645-647 pushes for a blank line
QueueURLs == {EmptyStr, <<"a">>, <<"b">>}

InitQueue ==
    /\ queue = <<>>
    /\ mu = NoHolder
    /\ qpc = [p \in Procs |-> "idle"]
    /\ qarg = [p \in Procs |-> EmptyStr]
    /\ qtmp = [p \in Procs |-> <<>>]
    /\ qret = [p \in Procs |-> EmptyStr]
    /\ qempty = [p \in Procs |-> FALSE]
    /\ pushed = <<>>
    /\ popped = <<>>
    /\ pushDone = <<>>

\* sync.Mutex.Lock returns only when no goroutine holds the mutex
CanLockRacy(p) == TRUE
CanLock(p) == mu = NoHolder

\* the element Pop returns: url := q.queue[0]
PopHeadLast(q) == q[Len(q)]
PopHead(q) == q[1]

\* the slice Pop keeps: q.queue = q.queue[1:]
PopRest(q) == Tail(q)

\* the slice Push stores: append(q.queue, url)
PushSlice(q, url) == Append(q, url)

\* a goroutine calls q.Push(url)
CallPush(p, url) ==
    /\ qpc[p] = "idle"
    /\ opsLeft > 0
    /\ opsLeft' = opsLeft - 1
    /\ qpc' = [qpc EXCEPT ![p] = "push_lock"]
    /\ qarg' = [qarg EXCEPT ![p] = url]
    /\ UNCHANGED <<queue, mu, qtmp, qret, qempty, pushed, popped, pushDone>>

\* q.mu.Lock() in Push
PushLock(p) ==
    /\ qpc[p] = "push_lock"
    /\ CanLock(p)
    /\ mu' = p
    /\ qpc' = [qpc EXCEPT ![p] = "push_read"]
    /\ UNCHANGED <<queue, qarg, qtmp, qret, qempty, opsLeft, pushed, popped, pushDone>>

\* append reads the slice header q.queue
PushRead(p) ==
    /\ qpc[p] = "push_read"
    /\ qtmp' = [qtmp EXCEPT ![p] = queue]
    /\ qpc' = [qpc EXCEPT ![p] = "push_write"]
    /\ UNCHANGED <<queue, mu, qarg, qret, qempty, opsLeft, pushed, popped, pushDone>>

\* q.queue = append(...) stores the extended slice
PushWrite(p) ==
    /\ qpc[p] = "push_write"
    /\ queue' = PushSlice(qtmp[p], qarg[p])
    /\ pushed' = Append(pushed, qarg[p])
    /\ qpc' = [qpc EXCEPT ![p] = "push_unlock"]
    /\ UNCHANGED <<mu, qarg, qtmp, qret, qempty, opsLeft, popped, pushDone>>

\* defer q.mu.Unlock() in Push; Push returns
PushUnlock(p) ==
    /\ qpc[p] = "push_unlock"
    /\ mu' = IF mu = p THEN NoHolder ELSE mu
    /\ pushDone' = Append(pushDone, qarg[p])
    /\ qpc' = [qpc EXCEPT ![p] = "idle"]
    /\ qarg' = [qarg EXCEPT ![p] = EmptyStr]
    /\ qtmp' = [qtmp EXCEPT ![p] = <<>>]
    /\ UNCHANGED <<queue, qret, qempty, opsLeft, pushed, popped>>

\* a goroutine calls q.Pop()
CallPop(p) ==
    /\ qpc[p] = "idle"
    /\ opsLeft > 0
    /\ opsLeft' = opsLeft - 1
    /\ qpc' = [qpc EXCEPT ![p] = "pop_lock"]
    /\ UNCHANGED <<queue, mu, qarg, qtmp, qret, qempty, pushed, popped, pushDone>>

\* q.mu.Lock() in Pop
PopLock(p) ==
    /\ qpc[p] = "pop_lock"
    /\ CanLock(p)
    /\ mu' = p
    /\ qpc' = [qpc EXCEPT ![p] = "pop_check"]
    /\ UNCHANGED <<queue, qarg, qtmp, qret, qempty, opsLeft, pushed, popped, pushDone>>

\* if len(q.queue) == 0 { return "" }; url := q.queue[0]
PopCheck(p) ==
    /\ qpc[p] = "pop_check"
    /\ IF Len(queue) = 0
       THEN /\ qret' = [qret EXCEPT ![p] = EmptyStr]
            /\ qempty' = [qempty EXCEPT ![p] = TRUE]
            /\ qpc' = [qpc EXCEPT ![p] = "pop_unlock"]
       ELSE /\ qret' = [qret EXCEPT ![p] = PopHead(queue)]
            /\ qempty' = qempty
            /\ qpc' = [qpc EXCEPT ![p] = "pop_slice"]
    /\ UNCHANGED <<queue, mu, qarg, qtmp, opsLeft, pushed, popped, pushDone>>

\* q.queue = q.queue[1:]; slicing an empty slice from 1 panics
PopSlice(p) ==
    /\ qpc[p] = "pop_slice"
    /\ IF Len(queue) = 0
       THEN /\ qpc' = [qpc EXCEPT ![p] = "panic"]
            /\ UNCHANGED <<queue, popped>>
       ELSE /\ queue' = PopRest(queue)
            /\ popped' = Append(popped, qret[p])
            /\ qpc' = [qpc EXCEPT ![p] = "pop_unlock"]
    /\ UNCHANGED <<mu, qarg, qtmp, qret, qempty, opsLeft, pushed, pushDone>>

\* defer q.mu.Unlock() in Pop; Pop returns qret[p]
PopUnlock(p) ==
    /\ qpc[p] = "pop_unlock"
    /\ mu' = IF mu = p THEN NoHolder ELSE mu
    /\ qpc' = [qpc EXCEPT ![p] = "idle"]
    /\ qret' = [qret EXCEPT ![p] = EmptyStr]
    /\ qempty' = [qempty EXCEPT ![p] = FALSE]
    /\ UNCHANGED <<queue, qarg, qtmp, opsLeft, pushed, popped, pushDone>>

-----------------------------------------------------------------------------
(* getScripts and getDOM, main.go:163-234 *)

\* a fetched page: the src attributes of its script elements in document
\* order (what goquery's Find("script[src]") visits) and its text
Page(scripts, text) == [scripts |-> scripts, text |-> text]

\* main.go:172-180
getScripts(page) == page.scripts

ScriptInfo(src, content) == [Src |-> src, Content |-> content]

\* main.go:219-225: the Src of every script that has one
RECURSIVE DomLinks(_)
DomLinks(scripts) ==
    IF scripts = <<>> THEN <<>>
    ELSE IF Head(scripts).Src # EmptyStr
         THEN <<Head(scripts).Src>> \o DomLinks(Tail(scripts))
         ELSE DomLinks(Tail(scripts))

\* main.go:219-225: the Content of the last script without Src that has one
RECURSIVE DomInline(_, _)
DomInline(scripts, inline) ==
    IF scripts = <<>> THEN inline
    ELSE IF Head(scripts).Src = EmptyStr /\ Head(scripts).Content # EmptyStr
         THEN DomInline(Tail(scripts), Head(scripts).Content)
         ELSE DomInline(Tail(scripts), inline)

\* what chromedp.Run meets at main.go:203-211: visible is FALSE when the body
\* of the page never becomes visible, err when the browser fails, scripts is
\* what the Evaluate of lines 205-210 stores
Browser(visible, err, scripts) ==
    [visible |-> visible, err |-> err, scripts |-> scripts]

DomResult(links, inline, err) == [links |-> links, inline |-> inline, err |-> err]

getDOMInlineKept(dom) ==
    IF dom.err THEN DomResult(<<>>, Absent, "browser")
    ELSE
    LET links  == DomLinks(dom.scripts)
        inline == DomInline(dom.scripts, EmptyStr)
    IN
    IF Len(links) = 0 /\ inline = EmptyStr
    THEN DomResult(<<>>, Absent, "no scripts found")
    ELSE IF Len(links) = 0
    THEN DomResult(<<>>, Content(inline), NoErr)
    ELSE DomResult(links, Absent, NoErr)

getDOMBoth(dom) ==
    IF dom.err THEN DomResult(<<>>, Absent, "browser")
    ELSE DomResult(DomLinks(dom.scripts),
                   Content(DomInline(dom.scripts, EmptyStr)), NoErr)

\* main.go:196-234; dom.err: chromedp.Run failed
getDOM(dom) ==
    IF dom.err THEN DomResult(<<>>, Absent, "browser")
    ELSE
    LET links  == DomLinks(dom.scripts)
        inline == DomInline(dom.scripts, EmptyStr)
    IN
    IF Len(links) = 0 /\ inline # EmptyStr
    THEN DomResult(<<>>, Absent, "no scripts found")
    ELSE IF Len(links) = 0
    THEN DomResult(<<>>, Content(inline), NoErr)
    ELSE DomResult(links, Absent, NoErr)

\* most script elements of one document
MaxScripts == 3

\* the elements of document.scripts as main.go:206-209 maps them: an element
\* with a src has its absolute url and no content, one without has its text
DomScripts ==
    {ScriptInfo(Concat(HttpsPrefix, <<"h", "/", "s">>), EmptyStr),
     ScriptInfo(Concat(HttpsPrefix, <<"h", "/", "t">>), EmptyStr),
     ScriptInfo(EmptyStr, EmptyStr),
     ScriptInfo(EmptyStr, <<"a">>),
     ScriptInfo(EmptyStr, <<"b">>)}

DomIdle ==
    /\ dpc = "idle"
    /\ dBrowser = Browser(TRUE, FALSE, <<>>)
    /\ dRes = DomResult(<<>>, Absent, NoErr)

\* scripts, inline, err = getDOM(ctx, url)
CallGetDOM ==
    /\ dpc = "call"
    /\ dRes' = getDOM(dBrowser)
    /\ dpc' = "done"
    /\ UNCHANGED dBrowser

-----------------------------------------------------------------------------
(* search and run, main.go:386-556 *)

\* urls in the queue when run starts
MaxSeeds == 2

Workers == 1..MaxSeeds

\* lines of the url file (main.go:645-647), or the one url of main.go:669
SeedURLs == {EmptyStr, <<"h">>, <<":">>}

ScriptURL == Concat(HttpsPrefix, <<"h", "/", "s">>)

\* the script lists and texts of the pages the crawl meets
Pages ==
    {Page(<<>>, EmptyStr),
     Page(<<>>, <<SQ, "a", SQ>>),
     Page(<< <<"/", "s">> >>, EmptyStr),
     Page(<< ScriptURL, EmptyStr >>, <<SQ, "a", SQ>>)}

\* what the network does with the request of one search
CrawlEnvs ==
    {[net |-> FALSE, status |-> StatusOK, readOk |-> TRUE, body |-> Page(<<>>, EmptyStr)],
     [net |-> TRUE, status |-> StatusNotFound, readOk |-> TRUE, body |-> Page(<<>>, EmptyStr)],
     [net |-> TRUE, status |-> StatusOK, readOk |-> FALSE, body |-> Page(<<>>, EmptyStr)]}
    \cup {[net |-> TRUE, status |-> StatusOK, readOk |-> TRUE, body |-> pg] : pg \in Pages}

\* what the headless browser finds at one url
DomEnvs ==
    {Browser(TRUE, TRUE, <<>>),
     Browser(TRUE, FALSE, <<>>),
     Browser(FALSE, FALSE, <<>>),
     Browser(TRUE, FALSE, << ScriptInfo(ScriptURL, EmptyStr) >>),
     Browser(TRUE, FALSE, << ScriptInfo(EmptyStr, <<SQ, "a", SQ>>) >>)}

NoWorker ==
    [pc |-> "none", url |-> EmptyStr, requested |-> FALSE,
     content |-> Absent, transient |-> FALSE,
     domErr |-> FALSE, scripts |-> <<>>, k |-> 1, inline |-> Absent,
     out |-> <<>>, err |-> NoErr]

Finished(i) == w[i].pc \in {"done", "error", "panic"}

\* search(ctx, url, flags, urlQueue) is running in goroutine i
Running(i) == w[i].pc \notin {"none", "done", "error", "panic"}

\* " (Location: " + url + ")", main.go:487, 500
Location(url) ==
    <<" ", "(", "L", "o", "c", "a", "t", "i", "o", "n", ":", " ">> \o url \o <<")">>

FindingBare(str, url, verify) == str

\* main.go:455-461, 483-489 and 496-502: one finding with its location
Finding(str, url, verify) == IF verify THEN Concat(str, Location(url)) ELSE str

Findings(strs, url, verify) ==
    [j \in 1..Len(strs) |-> Finding(strs[j], url, verify)]

PushNothing(q, url) == q

\* URLQueue.Push as one step: the mutex makes lines 33-35 atomic
Push(q, url) == PushSlice(q, url)

\* main.go:409-411 and 423-425: a script beginning with "/" is relative
ResolveScript(script, url) ==
    IF script[1] = "/" THEN Concat(url, script) ELSE script

CrawlIdle ==
    /\ flags = [dom |-> FALSE, verify |-> FALSE, noisy |-> FALSE,
                secrets |-> FALSE, urls |-> FALSE]
    /\ rpc = "idle"
    /\ snapshot = <<>>
    /\ ri = 1
    /\ tokens = 1
    /\ w = [i \in Workers |-> NoWorker]
    /\ outMu = NoHolder
    /\ output = <<>>
    /\ runErr = NoErr

\* main.go:531-538: the range statement evaluates urlQueue.queue once
RunRange ==
    /\ rpc = "start"
    /\ snapshot' = queue
    /\ rpc' = "loop"
    /\ UNCHANGED <<queue, flags, secretRegex, ri, tokens, w, outMu, output, runErr>>

\* rate.NewLimiter(1, 1): one second has passed, the bucket holds a token again
LimiterRefill ==
    /\ rpc = "loop"
    /\ tokens = 0
    /\ tokens' = 1
    /\ UNCHANGED <<queue, flags, secretRegex, rpc, snapshot, ri, w, outMu, output, runErr>>

RunDispatchNoToken ==
    /\ rpc = "loop"
    /\ ri <= Len(snapshot)
    /\ w' = [w EXCEPT ![ri] = [NoWorker EXCEPT !.pc = "start", !.url = snapshot[ri]]]
    /\ ri' = ri + 1
    /\ UNCHANGED <<queue, flags, secretRegex, rpc, snapshot, tokens, outMu, output, runErr>>

\* main.go:538-547: limiter.Wait returns with the token, pool.Go starts search
RunDispatch ==
    /\ rpc = "loop"
    /\ ri <= Len(snapshot)
    /\ tokens = 1
    /\ tokens' = 0
    /\ w' = [w EXCEPT ![ri] = [NoWorker EXCEPT !.pc = "start", !.url = snapshot[ri]]]
    /\ ri' = ri + 1
    /\ UNCHANGED <<queue, flags, secretRegex, rpc, snapshot, outMu, output, runErr>>

\* main.go:547-549: the range is exhausted, run calls pool.Wait
RunLoopEnd ==
    /\ rpc = "loop"
    /\ ri > Len(snapshot)
    /\ rpc' = "wait"
    /\ UNCHANGED <<queue, flags, secretRegex, snapshot, ri, tokens, w, outMu, output, runErr>>

\* main.go:549-555: pool.Wait returns when every goroutine has ended; it
\* panics again if one of them panicked, else it returns their errors
RunWait ==
    /\ rpc = "wait"
    /\ \A i \in 1..Len(snapshot) : Finished(i)
    /\ IF \E i \in 1..Len(snapshot) : w[i].pc = "panic"
       THEN rpc' = "crashed" /\ runErr' = "panic"
       ELSE /\ rpc' = "returned"
            /\ runErr' = IF \E i \in 1..Len(snapshot) : w[i].pc = "error"
                         THEN "error" ELSE NoErr
    /\ UNCHANGED <<queue, flags, secretRegex, snapshot, ri, tokens, w, outMu, output>>

SearchFetchUnchecked(i, env) ==
    /\ w[i].pc = "start"
    /\ LET r == getContents(w[i].url, w[i].url, env) IN
       /\ output' = IF r.warned
                    THEN Append(output, [by |-> i, kind |-> "warning"])
                    ELSE output
       /\ IF r.err # NoErr
          THEN w' = [w EXCEPT ![i].pc = "error", ![i].err = r.err,
                              ![i].requested = r.requested.sent]
          ELSE w' = [w EXCEPT ![i].pc = "fetched",
                              ![i].requested = r.requested.sent,
                              ![i].content = r.content,
                              ![i].transient = ~r.content.present]
    /\ UNCHANGED <<queue, flags, secretRegex, rpc, snapshot, ri, tokens, outMu, runErr>>

\* main.go:386-395: the empty url ("Attempted to search empty URL"), then
\* getContents(ctx, url, url); the warning of getContents goes to stdout
\* without the output mutex
SearchFetch(i, env) ==
    /\ w[i].pc = "start"
    /\ IF w[i].url = EmptyStr
       THEN /\ w' = [w EXCEPT ![i].pc = "error", ![i].err = "search empty"]
            /\ output' = output
       ELSE LET r == getContents(w[i].url, w[i].url, env) IN
            /\ output' = IF r.warned
                         THEN Append(output, [by |-> i, kind |-> "warning"])
                         ELSE output
            /\ IF r.err # NoErr
               THEN w' = [w EXCEPT ![i].pc = "error", ![i].err = r.err,
                                   ![i].requested = r.requested.sent]
               ELSE w' = [w EXCEPT ![i].pc = "fetched",
                                   ![i].requested = r.requested.sent,
                                   ![i].content = r.content,
                                   ![i].transient = ~r.content.present]
    /\ UNCHANGED <<queue, flags, secretRegex, rpc, snapshot, ri, tokens, outMu, runErr>>

\* main.go:399-404: getDOM(ctx, url).  The context of main.go:198 has no
\* deadline of its own and its parent is the context of run, which is
\* cancelled only when run returns: WaitVisible (main.go:204) returns when
\* the body is visible and not otherwise.
SearchDOM(i, dom) ==
    /\ w[i].pc = "fetched"
    /\ flags.dom
    /\ IF ~dom.visible /\ ~dom.err
       THEN w' = [w EXCEPT ![i].pc = "waitvisible"]
       ELSE LET d == getDOM(dom) IN
            IF d.err # NoErr
            THEN w' = [w EXCEPT ![i].pc = "error", ![i].err = d.err,
                                ![i].domErr = TRUE]
            ELSE w' = [w EXCEPT ![i].pc = "push", ![i].scripts = d.links,
                                ![i].inline = d.inline]
    /\ UNCHANGED <<queue, flags, secretRegex, rpc, snapshot, ri, tokens, outMu, output, runErr>>

\* main.go:415-419: getScripts(textString) dereferences textString, which is
\* nil when getContents returned no content
SearchScripts(i) ==
    /\ w[i].pc = "fetched"
    /\ ~flags.dom
    /\ IF ~w[i].content.present
       THEN w' = [w EXCEPT ![i].pc = "panic"]
       ELSE w' = [w EXCEPT ![i].pc = "push",
                           ![i].scripts = getScripts(w[i].content.text)]
    /\ UNCHANGED <<queue, flags, secretRegex, rpc, snapshot, ri, tokens, outMu, output, runErr>>

\* main.go:406-413 and 420-427: one iteration of the loop over the scripts;
\* script[:1] panics on the empty string
SearchPush(i) ==
    /\ w[i].pc = "push"
    /\ w[i].k <= Len(w[i].scripts)
    /\ LET script == w[i].scripts[w[i].k] IN
       IF script = EmptyStr
       THEN w' = [w EXCEPT ![i].pc = "panic"] /\ queue' = queue
       ELSE /\ queue' = Push(queue, ResolveScript(script, w[i].url))
            /\ w' = [w EXCEPT ![i].k = w[i].k + 1]
    /\ UNCHANGED <<flags, secretRegex, rpc, snapshot, ri, tokens, outMu, output, runErr>>

\* main.go:465-505: strings mode, the inline strings first
ExtractStrings(content, inline) ==
    LET s  == IF content.present
              THEN getStrings(content.text.text, flags.noisy) ELSE <<>>
        s2 == IF inline.present
              THEN getStrings(inline.text, flags.noisy) ELSE <<>>
    IN s2 \o s

\* main.go:442-448: the matches of the inline script, label by label, after
\* those of the page
MergeSecrets(s, s2) ==
    [l \in DOMAIN s \cup DOMAIN s2 |->
        (IF l \in DOMAIN s THEN s[l] ELSE <<>>)
            \o (IF l \in DOMAIN s2 THEN s2[l] ELSE <<>>)]

\* main.go:431-450: secrets mode.  s stays a nil map when textString is nil,
\* and line 446 then writes to the nil map, which panics.
ExtractSecrets(content, inline) ==
    LET fl == [urls |-> flags.urls, noisy |-> flags.noisy]
        s  == IF content.present
              THEN getSecrets(secretRegex, content.text.text, fl).results
              ELSE NoResults
        s2 == IF inline.present
              THEN getSecrets(secretRegex, inline.text, fl).results
              ELSE NoResults
    IN [panic |-> ~content.present /\ DOMAIN s2 # {},
        called |-> content.present \/ inline.present,
        found |-> MergeSecrets(s, s2)]

\* the orders in which the range of main.go:453 may visit the keys of a map
Orders(S) ==
    {o \in [1..Cardinality(S) -> S] : \A a, b \in DOMAIN o : o[a] = o[b] => a = b}

\* main.go:461: "Possible "+description+" found: "+finding
SecretLine(description, finding) ==
    <<"Possible ", description, " found: ">> \o finding

\* main.go:453-463: the lines of the labels from order[k] on
RECURSIVE SecretLines(_, _, _)
SecretLines(found, order, k) ==
    IF k > Len(order) THEN <<>>
    ELSE [j \in 1..Len(found[order[k]]) |-> SecretLine(order[k], found[order[k]][j])]
            \o SecretLines(found, order, k + 1)

\* main.go:431-512: the findings are collected in out, outputMutex.Lock()
\* returns with the mutex, and fmt.Print(searchingMsg) writes the header.
\* The texts that search does not read again are cleared.
SearchExtract(i) ==
    /\ w[i].pc = "push"
    /\ w[i].k > Len(w[i].scripts)
    /\ IF flags.secrets
       THEN LET e == ExtractSecrets(w[i].content, w[i].inline) IN
            /\ secretRegex' = IF e.called
                              THEN SetTable(secretRegex,
                                            [urls |-> flags.urls, noisy |-> flags.noisy])
                              ELSE secretRegex
            /\ IF e.panic
               THEN /\ w' = [w EXCEPT ![i].pc = "panic"]
                    /\ UNCHANGED <<outMu, output>>
               ELSE /\ outMu = NoHolder
                    /\ outMu' = i
                    /\ output' = Append(output, [by |-> i, kind |-> "searching"])
                    /\ \E order \in Orders(DOMAIN e.found) :
                          w' = [w EXCEPT ![i].pc = "results",
                                         ![i].out = Findings(SecretLines(e.found, order, 1),
                                                             w[i].url, flags.verify),
                                         ![i].content = Absent,
                                         ![i].inline = Absent]
       ELSE /\ outMu = NoHolder
            /\ outMu' = i
            /\ output' = Append(output, [by |-> i, kind |-> "searching"])
            /\ w' = [w EXCEPT ![i].pc = "results",
                              ![i].out = Findings(ExtractStrings(w[i].content, w[i].inline),
                                                  w[i].url, flags.verify),
                              ![i].content = Absent,
                              ![i].inline = Absent]
            /\ secretRegex' = secretRegex
    /\ UNCHANGED <<queue, flags, rpc, snapshot, ri, tokens, runErr>>

\* main.go:513-518: the findings or "No results found"; search returns and
\* the deferred outputMutex.Unlock() runs
SearchPrintResults(i) ==
    /\ w[i].pc = "results"
    /\ output' = Append(output,
                        [by |-> i,
                         kind |-> IF w[i].out # <<>> THEN "findings"
                                  ELSE "no results"])
    /\ outMu' = NoHolder
    /\ w' = [w EXCEPT ![i].pc = "done"]
    /\ UNCHANGED <<queue, flags, secretRegex, rpc, snapshot, ri, tokens, runErr>>

-----------------------------------------------------------------------------
(* Specifications *)

InitQ ==
    /\ InitQueue
    /\ opsLeft = MaxOps
    /\ FetchIdle
    /\ StringsIdle
    /\ CrawlIdle
    /\ SecretsIdle
    /\ DomIdle

queueFrame == <<fetchVars, stringVars, crawlVars, secretVars, domVars>>

NextQueue ==
    \/ \E p \in Procs, url \in QueueURLs : CallPush(p, url) /\ UNCHANGED queueFrame
    \/ \E p \in Procs : PushLock(p) /\ UNCHANGED queueFrame
    \/ \E p \in Procs : PushRead(p) /\ UNCHANGED queueFrame
    \/ \E p \in Procs : PushWrite(p) /\ UNCHANGED queueFrame
    \/ \E p \in Procs : PushUnlock(p) /\ UNCHANGED queueFrame
    \/ \E p \in Procs : CallPop(p) /\ UNCHANGED queueFrame
    \/ \E p \in Procs : PopLock(p) /\ UNCHANGED queueFrame
    \/ \E p \in Procs : PopCheck(p) /\ UNCHANGED queueFrame
    \/ \E p \in Procs : PopSlice(p) /\ UNCHANGED queueFrame
    \/ \E p \in Procs : PopUnlock(p) /\ UNCHANGED queueFrame

SpecQueue == InitQ /\ [][NextQueue]_vars

InitF ==
    /\ fpc = "call"
    /\ fUrl \in FetchURLs
    /\ fBase \in FetchBases
    /\ fEnv \in Envs
    /\ fRes = OnEmptyUrl(EmptyStr)
    /\ InitQueue
    /\ opsLeft = 0
    /\ StringsIdle
    /\ CrawlIdle
    /\ SecretsIdle
    /\ DomIdle

NextFetch == CallGetContents /\ UNCHANGED <<queueVars, stringVars, crawlVars, secretVars, domVars>>

SpecFetch == InitF /\ [][NextFetch]_vars

InitS ==
    /\ spc = "call"
    /\ sNoisy \in BOOLEAN
    /\ (FreeInput \/ ThreeLiteralInput \/ EscapedInput \/ TailInput)
    /\ sRes = <<>>
    /\ sLocals = NoLocals
    /\ sCalls = 0
    /\ sFirst = NoFirst
    /\ InitQueue
    /\ opsLeft = 0
    /\ FetchIdle
    /\ CrawlIdle
    /\ SecretsIdle
    /\ DomIdle

NextStrings == CallGetStrings /\ UNCHANGED <<queueVars, fetchVars, crawlVars, secretVars, domVars>>

SpecStrings == InitS /\ [][NextStrings]_vars

InitR ==
    /\ spc = "call"
    /\ sNoisy \in BOOLEAN
    /\ sText \in RepeatTexts
    /\ sShape = NoShape
    /\ sRes = <<>>
    /\ sLocals = NoLocals
    /\ sCalls = 0
    /\ sFirst = NoFirst
    /\ InitQueue
    /\ opsLeft = 0
    /\ FetchIdle
    /\ CrawlIdle
    /\ SecretsIdle
    /\ DomIdle

NextRepeat ==
    \/ CallGetStrings /\ UNCHANGED <<queueVars, fetchVars, crawlVars, secretVars, domVars>>
    \/ NextCall /\ UNCHANGED <<queueVars, fetchVars, crawlVars, secretVars, domVars>>

SpecRepeat == InitR /\ [][NextRepeat]_vars

secretsFrame == <<queueVars, fetchVars, stringVars, crawlVars, domVars>>

\* unnamed/part_000:93-118: calls of getSecrets one after another
InitG ==
    /\ secretRegex = BaseTable
    /\ gpc = "call"
    /\ gText \in SecretTexts
    /\ gFlags \in SecretFlags
    /\ gRes = NoResults
    /\ gCalls = 0
    /\ gPrev = NoPrev
    /\ kpc = [i \in Goroutines |-> "idle"]
    /\ kLeft = [i \in Goroutines |-> 0]
    /\ kSeen = [i \in Goroutines |-> BaseTable]
    /\ gFatal = FALSE
    /\ InitQueue
    /\ opsLeft = 0
    /\ FetchIdle
    /\ StringsIdle
    /\ CrawlIdle
    /\ DomIdle

NextSecrets ==
    \/ CallGetSecrets /\ UNCHANGED secretsFrame
    \/ NextSecretsCall /\ UNCHANGED secretsFrame

SpecSecrets == InitG /\ [][NextSecrets]_vars

\* main.go:544-546: the pool's goroutines run search at the same time, all
\* with the one flags map of the process
InitK ==
    /\ secretRegex = BaseTable
    /\ gpc = "idle"
    /\ gText \in RaceTexts
    /\ gFlags \in SecretFlags
    /\ gRes = NoResults
    /\ gCalls = 0
    /\ gPrev = NoPrev
    /\ kpc = [i \in Goroutines |-> "ready"]
    /\ kLeft = [i \in Goroutines |-> CallsPerSearch]
    /\ kSeen = [i \in Goroutines |-> BaseTable]
    /\ gFatal = FALSE
    /\ InitQueue
    /\ opsLeft = 0
    /\ FetchIdle
    /\ StringsIdle
    /\ CrawlIdle
    /\ DomIdle

NextSecretsRace ==
    \/ \E i \in Goroutines : EnterGetSecrets(i) /\ UNCHANGED secretsFrame
    \/ \E i \in Goroutines : WriteTable(i) /\ UNCHANGED secretsFrame
    \/ \E i \in Goroutines : ReturnSecrets(i) /\ UNCHANGED secretsFrame
    \/ RuntimeFatal /\ UNCHANGED secretsFrame

SpecSecretsRace == InitK /\ [][NextSecretsRace]_vars

\* the queue as main leaves it before run: the lines of the url file
Init ==
    /\ queue \in {q \in SeqsUpTo(SeedURLs, MaxSeeds) : q # <<>>}
    /\ mu = NoHolder
    /\ qpc = [p \in Procs |-> "idle"]
    /\ qarg = [p \in Procs |-> EmptyStr]
    /\ qtmp = [p \in Procs |-> <<>>]
    /\ qret = [p \in Procs |-> EmptyStr]
    /\ qempty = [p \in Procs |-> FALSE]
    /\ pushed = <<>>
    /\ popped = <<>>
    /\ pushDone = <<>>
    /\ opsLeft = 0
    /\ FetchIdle
    /\ StringsIdle
    /\ flags \in [dom : BOOLEAN, verify : BOOLEAN, noisy : {FALSE},
                   secrets : {FALSE}, urls : {FALSE}]
    /\ rpc = "start"
    /\ snapshot = <<>>
    /\ ri = 1
    /\ tokens = 1
    /\ w = [i \in Workers |-> NoWorker]
    /\ outMu = NoHolder
    /\ output = <<>>
    /\ runErr = NoErr
    /\ SecretsIdle
    /\ DomIdle

crawlFrame ==
    <<mu, qpc, qarg, qtmp, qret, qempty, opsLeft, pushed, popped, pushDone,
      fetchVars, stringVars,
      gpc, gText, gFlags, gRes, gCalls, gPrev, kpc, kLeft, kSeen, gFatal,
      domVars>>

Next ==
    \/ RunRange /\ UNCHANGED crawlFrame
    \/ LimiterRefill /\ UNCHANGED crawlFrame
    \/ RunDispatch /\ UNCHANGED crawlFrame
    \/ RunLoopEnd /\ UNCHANGED crawlFrame
    \/ RunWait /\ UNCHANGED crawlFrame
    \/ \E i \in Workers, env \in CrawlEnvs : SearchFetch(i, env) /\ UNCHANGED crawlFrame
    \/ \E i \in Workers, dom \in DomEnvs : SearchDOM(i, dom) /\ UNCHANGED crawlFrame
    \/ \E i \in Workers : SearchScripts(i) /\ UNCHANGED crawlFrame
    \/ \E i \in Workers : SearchPush(i) /\ UNCHANGED crawlFrame
    \/ \E i \in Workers : SearchExtract(i) /\ UNCHANGED crawlFrame
    \/ \E i \in Workers : SearchPrintResults(i) /\ UNCHANGED crawlFrame

Spec == Init /\ [][Next]_vars

\* run in strings mode without verify, on a network that either fails the
\* request or serves one page with a rooted script, and a browser that
\* either fails or finds one external script
RunEnvs ==
    {[net |-> FALSE, status |-> StatusOK, readOk |-> TRUE, body |-> Page(<<>>, EmptyStr)],
     [net |-> TRUE, status |-> StatusOK, readOk |-> TRUE,
      body |-> Page(<< <<"/", "s">> >>, <<SQ, "a", SQ>>)]}

RunDoms ==
    {Browser(TRUE, TRUE, <<>>),
     Browser(TRUE, FALSE, << ScriptInfo(ScriptURL, EmptyStr) >>)}

InitRun ==
    /\ Init
    /\ ~flags.verify

NextRun ==
    \/ RunRange /\ UNCHANGED crawlFrame
    \/ LimiterRefill /\ UNCHANGED crawlFrame
    \/ RunDispatch /\ UNCHANGED crawlFrame
    \/ RunLoopEnd /\ UNCHANGED crawlFrame
    \/ RunWait /\ UNCHANGED crawlFrame
    \/ \E i \in Workers, env \in RunEnvs : SearchFetch(i, env) /\ UNCHANGED crawlFrame
    \/ \E i \in Workers, dom \in RunDoms : SearchDOM(i, dom) /\ UNCHANGED crawlFrame
    \/ \E i \in Workers : SearchScripts(i) /\ UNCHANGED crawlFrame
    \/ \E i \in Workers : SearchPush(i) /\ UNCHANGED crawlFrame
    \/ \E i \in Workers : SearchExtract(i) /\ UNCHANGED crawlFrame
    \/ \E i \in Workers : SearchPrintResults(i) /\ UNCHANGED crawlFrame

SpecRun == InitRun /\ [][NextRun]_vars

\* getDOM on every document of up to MaxScripts script elements, and on a
\* browser that fails
InitD ==
    /\ InitQueue
    /\ opsLeft = 0
    /\ FetchIdle
    /\ StringsIdle
    /\ CrawlIdle
    /\ SecretsIdle
    /\ dpc = "call"
    /\ dBrowser \in {Browser(TRUE, err, scripts) :
                        err \in BOOLEAN, scripts \in SeqsUpTo(DomScripts, MaxScripts)}
    /\ dRes = DomResult(<<>>, Absent, NoErr)

NextDom ==
    CallGetDOM /\ UNCHANGED <<queueVars, fetchVars, stringVars, crawlVars, secretVars>>

SpecDom == InitD /\ [][NextDom]_vars

\* One call of search, with every flag free: search(ctx, url, flags, urlQueue)
\* on a queue that holds url
PageURL == Concat(HttpsPrefix, <<"h">>)

SearchURLs == SeedURLs \cup {PageURL}

\* matches main.go:53, and the noisy URL pattern of main.go:329 as well
OAuthToken == <<"y", "a", "2", "9", ".", "a", "b">>

\* the pages one search meets: without scripts, with a rooted, a relative and
\* an absolute script, with a script tag whose src is empty, and with a
\* token in quotes
SearchPages ==
    {Page(<<>>, EmptyStr),
     Page(<< <<"/", "s">>, <<"s">>, ScriptURL >>, <<SQ, "a", SQ>>),
     Page(<< EmptyStr >>, <<SQ, "a", SQ>>),
     Page(<<>>, Quoted(SQ, OAuthToken))}

SearchEnvs ==
    {[net |-> FALSE, status |-> StatusOK, readOk |-> TRUE, body |-> Page(<<>>, EmptyStr)],
     [net |-> TRUE, status |-> StatusNotFound, readOk |-> TRUE, body |-> Page(<<>>, EmptyStr)],
     [net |-> TRUE, status |-> StatusOK, readOk |-> FALSE, body |-> Page(<<>>, EmptyStr)]}
    \cup {[net |-> TRUE, status |-> StatusOK, readOk |-> TRUE, body |-> pg] : pg \in SearchPages}

InitSearch ==
    /\ \E url \in SearchURLs :
          /\ queue = <<url>>
          /\ w = [i \in Workers |->
                    IF i = 1 THEN [NoWorker EXCEPT !.pc = "start", !.url = url]
                    ELSE NoWorker]
    /\ mu = NoHolder
    /\ qpc = [p \in Procs |-> "idle"]
    /\ qarg = [p \in Procs |-> EmptyStr]
    /\ qtmp = [p \in Procs |-> <<>>]
    /\ qret = [p \in Procs |-> EmptyStr]
    /\ qempty = [p \in Procs |-> FALSE]
    /\ pushed = <<>>
    /\ popped = <<>>
    /\ pushDone = <<>>
    /\ opsLeft = 0
    /\ FetchIdle
    /\ StringsIdle
    /\ flags \in [dom : BOOLEAN, verify : BOOLEAN, noisy : BOOLEAN,
                   secrets : BOOLEAN, urls : BOOLEAN]
    /\ rpc = "idle"
    /\ snapshot = <<>>
    /\ ri = 1
    /\ tokens = 1
    /\ outMu = NoHolder
    /\ output = <<>>
    /\ runErr = NoErr
    /\ SecretsIdle
    /\ DomIdle

NextSearch ==
    \/ \E env \in SearchEnvs : SearchFetch(1, env) /\ UNCHANGED crawlFrame
    \/ \E dom \in DomEnvs : SearchDOM(1, dom) /\ UNCHANGED crawlFrame
    \/ SearchScripts(1) /\ UNCHANGED crawlFrame
    \/ SearchPush(1) /\ UNCHANGED crawlFrame
    \/ SearchExtract(1) /\ UNCHANGED crawlFrame
    \/ SearchPrintResults(1) /\ UNCHANGED crawlFrame

SpecSearch == InitSearch /\ [][NextSearch]_vars

\* the goroutine of a search that has reached main.go:401 does call getDOM
SpecSearchFair ==
    SpecSearch /\ WF_vars(\E dom \in DomEnvs : SearchDOM(1, dom) /\ UNCHANGED crawlFrame)

-----------------------------------------------------------------------------
(* Claims on URLQueue *)

AllIdle == \A p \in Procs : qpc[p] = "idle"

\* C1: URLQueue is a strict FIFO without dedup: the urls stored so far, in
\* the order they were stored, are the urls Pop has removed so far, in the
\* order it removed them, followed by the current queue (so every Pop on a
\* non-empty queue removes the oldest entry, and equal urls stay separate
\* entries); a Pop that finds the queue empty returns "" and leaves the
\* queue empty.
C1_StrictFifo ==
    /\ pushed = popped \o queue
    /\ \A p \in Procs :
          qpc[p] = "pop_unlock" =>
              IF qempty[p]
              THEN qret[p] = EmptyStr /\ queue = <<>>
              ELSE popped # <<>> /\ qret[p] = popped[Len(popped)]

\* C1 witness: Push(a); Push(b) and two Pops have returned a then b, and a
\* third Pop has found the queue empty and is returning "".
C1_Witness ==
    /\ pushed = << <<"a">>, <<"b">> >>
    /\ popped = << <<"a">>, <<"b">> >>
    /\ \E p \in Procs : qpc[p] = "pop_unlock" /\ qempty[p] /\ qret[p] = EmptyStr

\* C2: no Push is lost under any interleaving: once every call has returned,
\* each url is in the queue or among the removed urls exactly as many times
\* as Push was called with it, and when no Pop removed anything the queue
\* length is the number of Push calls.
C2_NoLostPush ==
    AllIdle =>
        /\ \A u \in QueueURLs :
              Count(queue, u) + Count(popped, u) = Count(pushDone, u)
        /\ (popped = <<>> => Len(queue) = Len(pushDone))

\* C2 witness: three goroutines have each completed one Push, a fourth and
\* fifth call were Pops or Pushes by any of them, and nothing was popped:
\* here, every goroutine pushed at least once and the queue holds them all.
C2_Witness ==
    /\ AllIdle
    /\ popped = <<>>
    /\ Len(pushDone) >= NumProcs
    /\ Len(queue) = Len(pushDone)

-----------------------------------------------------------------------------
(* Claims on getContents *)

FetchDone == fpc = "done"

\* the request reached the transport and the transport failed, or the
\* response has a status other than 200
TransientFailure ==
    /\ fRes.requested.sent
    /\ (DoFails(fRes.requested.url, fEnv) \/ fEnv.status # StatusOK)

\* C5: getContents returns absent content and no error whenever the request
\* fails at the network level or the response status is not 200.
C5_TransientIsAbsentNoError ==
    (FetchDone /\ TransientFailure) =>
        (fRes.content = Absent /\ fRes.err = NoErr)

\* C5 witness: a request that was answered with 404 returned (absent, nil).
C5_Witness ==
    /\ FetchDone
    /\ fRes.requested.sent
    /\ ~DoFails(fRes.requested.url, fEnv)
    /\ fEnv.status = StatusNotFound
    /\ fRes.content = Absent
    /\ fRes.err = NoErr

\* C6: for a non-empty url, getContents returns an error only when the url
\* fails to parse; request creation, transport, status and body-read
\* failures all give absent content and no error.
C6_OnlyParseErrors ==
    (FetchDone /\ fUrl # EmptyStr /\ fRes.err # NoErr) =>
        ~ParseURL(ResolveRelative(fUrl, fBase)).ok

\* C7: getContents("") returns an error and no content, for every base url,
\* without issuing a request.
C7_EmptyUrlIsError ==
    (FetchDone /\ fUrl = EmptyStr) =>
        /\ fRes.err # NoErr
        /\ fRes.content = Absent
        /\ ~fRes.requested.sent

\* C7 witness: the empty url with the base https://h returned the error.
C7_Witness ==
    /\ FetchDone
    /\ fUrl = EmptyStr
    /\ fBase = Concat(HttpsPrefix, <<"h">>)
    /\ fRes.err = "empty"

RelativeCall == FetchDone /\ fUrl # EmptyStr /\ fUrl[1] = "/"

\* the response is a 200 whose body was read to its end
FullResponse ==
    /\ fRes.requested.sent
    /\ ~DoFails(fRes.requested.url, fEnv)
    /\ fEnv.status = StatusOK
    /\ fEnv.readOk

-----------------------------------------------------------------------------
(* Claims on getStrings *)

StringsDone == spc = "done"

\* C9: a text holding the literals 'a', "b" and a backtick-quoted c, with prose (text
\* without quote characters) before, between and after them, yields exactly
\* the three values in order of appearance, without their delimiters.
C9_ThreeLiterals ==
    (StringsDone /\ sShape.three) =>
        sRes = <<sShape.a, sShape.b, sShape.c>>

\* C9 witness: the text x 'a' \ "ab" BT b BT x was tokenized into a, ab, b.
C9_Witness ==
    /\ StringsDone
    /\ sShape.three
    /\ sText = ThreeLiterals(<<"x">>, <<"a">>, <<BS>>, <<"a", "b">>,
                             <<>>, <<"b">>, <<"x">>)
    /\ sRes = << <<"a">>, <<"a", "b">> , <<"b">> >>

\* the text is d w1 e w2 d: a string opened and closed by the quote d that
\* holds one other quote character e between two runs of letters
OtherQuoteInside(text, d, e) ==
    /\ Len(text) = 5
    /\ IsQuote(d) /\ IsQuote(e) /\ d # e
    /\ text[1] = d /\ text[5] = d /\ text[3] = e
    /\ text[2] = "a" /\ text[4] = "a"

\* C10: inside a string opened by d, an unescaped quote character other
\* than d neither closes the string nor opens a nested one: d a e a d
\* (such as "a'a") yields the single value a e a.
C10_OtherQuoteDoesNotClose ==
    \A d \in {SQ, DQ, BT}, e \in {SQ, DQ, BT} :
        (StringsDone /\ OtherQuoteInside(sText, d, e)) =>
            sRes = << <<"a", e, "a">> >>

\* C11: a delimiter preceded by a backslash inside a string does not close
\* the string: a literal q v1 \ q v2 q, such as 'it\'s fine', yields exactly
\* one string, whose value keeps the escaped quote with its backslash.
C11_EscapedDelimiterKept ==
    \A q \in {SQ, DQ, BT} : \A v1 \in EscValues, v2 \in EscValues :
        (StringsDone /\ sText = EscapedLiteral(q, v1, q, v2)) =>
            sRes = << v1 \o <<BS, q>> \o v2 >>

\* C11 witness: 'it\'s fine' was tokenized into the one value it\'s fine.
C11_Witness ==
    /\ StringsDone
    /\ sText = <<SQ, "i", "t", BS, SQ, "s", " ", "f", "i", "n", "e", SQ>>
    /\ sRes = << <<"i", "t", BS, SQ, "s", " ", "f", "i", "n", "e">> >>

\* C12: whatever character c follows a backslash inside a string, a quote
\* or not, the value receives the backslash followed by c: the literal
\* q v1 \ c v2 q yields the one value v1 \ c v2.
C12_BackslashNeverDropped ==
    \A q \in {SQ, DQ, BT}, c \in EscapedChars :
    \A v1 \in EscValues, v2 \in EscValues :
        (StringsDone /\ sText = EscapedLiteral(q, v1, c, v2)) =>
            sRes = << v1 \o <<BS, c>> \o v2 >>

\* C13: with noisy off, a text that ends inside an unterminated string
\* whose fragment holds function( and the standalone words var and return
\* yields a result in which the fragment does not occur.
C13_MinifiedTailDiscarded ==
    \A p \in Proses, q \in {SQ, DQ, BT}, f \in MinifiedFragments :
        (StringsDone /\ ~sNoisy /\ sText = Unterminated(p, q, f)) =>
            Count(sRes, f) = 0

\* the scanner's locals when the loop over the text ends, main.go:282
AfterLoop(text) == ScanFrom(ScanStart, text, 1)

\* C14: for every text that ends inside an unterminated string and for
\* both values of noisy, the trailing fragment is appended to the result at
\* most once: the result is at most one element longer than it was when
\* the loop over the text ended.
C14_TailAppendedAtMostOnce ==
    (StringsDone /\ AfterLoop(sText).inString) =>
        Len(sRes) <= Len(AfterLoop(sText).result) + 1

-----------------------------------------------------------------------------
(* Claims on getSecrets *)

SecretsDone == gpc = "done"

\* C16: the pattern table a call of getSecrets applies depends only on that
\* call's flags, whatever calls came before: it is the base table, plus the
\* URL pattern of its flags when urls is on, plus the six noisy-only
\* patterns when noisy is on; so a call with noisy off applies no noisy-only
\* pattern and a call with urls off applies no URL pattern.
C16_TableDependsOnFlagsOnly ==
    SecretsDone => secretRegex = SetTable(BaseTable, gFlags)

\* C18: on a text holding https://example.com and then the bare domain
\* example.com, a call with urls and noisy on returns both under the URL
\* label, in that order, and a call with urls on and noisy off returns
\* only the scheme-qualified one, also right after a noisy call.
C18_UrlMatches ==
    (SecretsDone /\ gFlags.urls /\ gText \in UrlTexts \cup {TestText}) =>
        /\ URLLabel \in DOMAIN gRes
        /\ gRes[URLLabel] = IF gFlags.noisy THEN <<UrlHttps, BareDomain>>
                                            ELSE <<UrlHttps>>

\* C18 witness: the call with urls on and noisy off that follows a call
\* with both on returned only https://example.com for the text of the test.
C18_Witness ==
    /\ SecretsDone
    /\ gPrev.called /\ gPrev.urls /\ gPrev.noisy
    /\ gFlags.urls /\ ~gFlags.noisy
    /\ gText = TestText
    /\ URLLabel \in DOMAIN gRes
    /\ gRes[URLLabel] = <<UrlHttps>>

C20_NoEmptyLists ==
    SecretsDone => \A l \in DOMAIN gRes : gRes[l] # <<>>

\* C20 witness: with noisy off, the one match of the Cloudinary pattern was
\* dropped as minified code and the map came back without any key.
C20_Witness ==
    /\ SecretsDone
    /\ ~gFlags.noisy /\ ~gFlags.urls
    /\ gText = CloudinaryMinified
    /\ FindAllString(Compile("ReCloudinaryUrl"), gText) = <<CloudinaryMinified>>
    /\ DOMAIN gRes = {}

\* C17: when several goroutines of the pool execute getSecrets at once, no
\* goroutine writes secretRegex while another one writes it or ranges over
\* it: no data race on the shared table is reachable, and the runtime never
\* aborts the process for one.
C17_NoRaceOnSecretRegex ==
    /\ \A i \in Goroutines, j \in Goroutines : ~Racing(i, j)
    /\ ~gFatal

-----------------------------------------------------------------------------
(* Claims on the crawl *)

RunEnded == rpc \in {"returned", "crashed"}

\* the search of queue entry j has run to its end
Searched(j) == j \in Workers /\ w[j].pc \in {"done", "error"}

\* C3: the pool drains the queue: when run returns, every entry of the
\* queue, the ones pushed by script discovery during the crawl included,
\* has been dispatched to a worker and searched.
C3_DiscoveredAreSearched ==
    rpc = "returned" => \A j \in 1..Len(queue) : Searched(j)

\* C4: a transient fetch failure of one url (getContents returned absent
\* content and no error) never aborts the crawl: unless getDOM itself
\* reports an error, the search of that url ends without error or crash,
\* and when no other search failed run returns no error.
C4_TransientFetchHarmless ==
    \A i \in Workers :
        (w[i].transient /\ ~w[i].domErr) =>
            /\ w[i].pc \notin {"panic", "error"}
            /\ (RunEnded /\ (\A j \in Workers \ {i} : w[j].pc \in {"none", "done"})
                   => runErr = NoErr)

-----------------------------------------------------------------------------
(* Claims on search *)

\* C21: every finding that search has collected ends with
\* " (Location: <url>)", the url being the one search was called with, when
\* flags["verify"] is set, and has no such ending when it is not, in strings
\* mode and in secrets mode alike.
C21_LocationIffVerify ==
    \A i \in Workers : \A j \in 1..Len(w[i].out) :
        HasSuffix(w[i].out[j], Location(w[i].url)) <=> flags.verify

\* C21 witness: a search in secrets mode with verify set has printed the
\* token it found in the page.
C21_Witness ==
    /\ flags.secrets /\ flags.verify
    /\ w[1].pc = "done"
    /\ w[1].out = << SecretLine("Google OAuth 2.0 Access Token", OAuthToken)
                        \o Location(w[1].url) >>

\* C22: a search that has ended without an error and without a finding,
\* the search of a url whose fetch gave no content included, has written the
\* line "No results found" for its url.
C22_NoResultsWritten ==
    \A i \in Workers :
        (Finished(i) /\ w[i].err = NoErr /\ w[i].out = <<>>) =>
            \E k \in DOMAIN output : output[k] = [by |-> i, kind |-> "no results"]

\* C23: writes to the output are serialised per url: the header of one
\* search is followed at once by the results of that search, and nothing
\* but the search that wrote the header, a fetch warning included, writes
\* while that search holds the output.
C23_BlockNotInterleaved ==
    /\ \A k \in DOMAIN output :
          (output[k].kind = "searching" /\ k < Len(output)) =>
              /\ output[k + 1].by = output[k].by
              /\ output[k + 1].kind \in {"findings", "no results"}
    /\ \A i \in Workers :
          w[i].pc = "results" => output[Len(output)] = [by |-> i, kind |-> "searching"]

\* C24: once a search has failed with an error (the empty url, a url that
\* cannot be requested, a failure of the headless browser), run starts the
\* search of no further url: no step dispatches a url while the search of
\* an earlier one has ended in an error.
C24_NoDispatchAfterError ==
    [][ri' = ri + 1 => \A i \in Workers : w[i].pc # "error"]_vars

\* C25: the pool is bounded: the number of searches running at once stays
\* below a pool size that does not grow with the queue, so that the urls of
\* a queue of more than one url are never all being searched at once.
C25_PoolBounded ==
    Len(snapshot) > 1 => \E i \in 1..Len(snapshot) : ~Running(i)

\* C26: run takes one token from a bucket of capacity 1 before it starts a
\* search: the bucket never holds more than one token, a dispatch happens
\* only with the token in the bucket and empties it, and only a refill, a
\* step of its own, puts a token back, so a refill lies between any two
\* dispatches; the steps of a search that has been started neither take nor
\* give tokens.
C26_DispatchTakesToken ==
    [][/\ tokens' \in 0..1
       /\ ri' = ri + 1 => (tokens = 1 /\ tokens' = 0)
       /\ tokens' > tokens => (ri' = ri /\ w' = w)
       /\ (w' # w /\ ri' = ri) => tokens' = tokens
      ]_vars

\* C26 witness: the first url has been dispatched and the bucket has been
\* empty since; the search of that url has run to its end meanwhile, and the
\* second url is still waiting for the refill.
C26_Witness ==
    /\ Len(snapshot) = 2
    /\ ri = 2
    /\ tokens = 0
    /\ w[1].pc = "done"

\* url.URL.IsAbs: the url parses and has a scheme
AbsoluteURL(u) == ParseURL(u).ok /\ ParseURL(u).scheme # EmptyStr

\* C30: every url that search pushes is absolute: in the queue of one search,
\* which held the url of the page when the search began, every later entry
\* is an absolute url.
C30_PushedAreAbsolute ==
    \A k \in 2..Len(queue) : AbsoluteURL(queue[k])

-----------------------------------------------------------------------------
(* Claims on getDOM *)

\* C27: every call of getDOM returns in the end: a search with the dom flag
\* that has fetched its page and calls getDOM gets past the call, with the
\* links, the inline script or an error, also when the body of the page
\* never becomes visible.
C27_GetDOMReturns ==
    (flags.dom /\ w[1].pc = "fetched") ~> (w[1].pc \notin {"fetched", "waitvisible"})

\* C28: a call of getDOM that returns without an error returns one of two
\* shapes and never both: a non-empty list of links and no inline script, or
\* an inline script and no links.
C28_LinksOrInline ==
    (dpc = "done" /\ dRes.err = NoErr) =>
        \/ dRes.links # <<>> /\ ~dRes.inline.present
        \/ dRes.links = <<>> /\ dRes.inline.present

\* C28 witness: a document with an inline script and two external ones has
\* given the two links, and no inline script.
C28_Witness ==
    /\ dpc = "done"
    /\ Len(dBrowser.scripts) = 3
    /\ dBrowser.scripts[1].Content # EmptyStr
    /\ Len(dRes.links) = 2
    /\ dRes.err = NoErr

\* C29: getDOM fails with "no scripts found" exactly when the document has
\* no script with a src and no inline script with content; on a document
\* without a src but with inline content it succeeds and returns that
\* content.
C29_NoScriptsFound ==
    (dpc = "done" /\ ~dBrowser.err) =>
        LET links  == DomLinks(dBrowser.scripts)
            inline == DomInline(dBrowser.scripts, EmptyStr)
        IN /\ dRes.err = "no scripts found" <=> (links = <<>> /\ inline = EmptyStr)
           /\ (links = <<>> /\ inline # EmptyStr) =>
                  dRes = DomResult(<<>>, Content(inline), NoErr)

-----------------------------------------------------------------------------
(* Claims on the pattern table and the README *)

\* README.md:167-209, the labels listed under "Secrets flag"
ReadmeSecretsFlag ==
    {"Google API Key", "Google OAuth 2.0 Refresh Token",
     "Google OAuth 2.0 Access Token",
     "GitHub Personal Access Token (Classic)",
     "GitHub Personal Access Token (Fine-Grained",
     "GitHub OAuth 2.0 Access Token", "GitHub User-to-Server Access Token",
     "GitHub Server-to-Server Access Token", "GitHub Refresh Token",
     "Foursquare Secret Key", "Picatic API Key", "Stripe Standard API Key",
     "Stripe Restricted API Key", "Square Access Token",
     "Square OAuth Secret", "Paypal / Braintree Access Token",
     "Amazon Marketing Services Auth Token", "Mailgun API Key", "MailChimp",
     "Twilio", "Slack OAuth v2 Bot Access Token",
     "Slack OAuth v2 User Access Token",
     "Slack OAuth v2 Configuration Token", "Slack OAuth v2 Refresh Token",
     "Slack Webhook", "AWS Access Key ID",
     "Google Cloud Platform OAuth 2.0", "Heroku OAuth 2.0",
     "Facebook Access Token", "Facebook OAuth", "Twitter Username",
     "Twitter Access Token", "Cloudinary URL", "Firebase URL",
     "RSA Private Key", "DSA Private Key", "EC Private Key",
     "PGP Private Key", "Generic API Key", "Generic Secret",
     "Password in URL", "Slack Webhook URL"}

\* README.md:211-214, the labels listed under "Noisy flag"
ReadmeNoisyFlag ==
    {"Google OAuth 2.0 Auth Code", "Google Cloud Platform API Key",
     "Heroku API Key"}

\* C31: the first call of getSecrets in a process applies, with noisy off,
\* exactly the labels the README lists under "Secrets flag" (Twilio, Generic
\* Secret and Google OAuth 2.0 Refresh Token among them), and with noisy on
\* those and exactly the labels it lists under "Noisy flag"; the URL label of
\* the urls flag aside.
C31_LabelsAsInReadme ==
    (SecretsDone /\ ~gPrev.called) =>
        DOMAIN secretRegex \ {URLLabel} =
            ReadmeSecretsFlag \cup (IF gFlags.noisy THEN ReadmeNoisyFlag ELSE {})

-----------------------------------------------------------------------------
(* Further claims on search and run *)

\* C32: for every script reference discovery returned, the empty src
\* included, search pushes one queue entry, in the order of discovery, and
\* goes on to the extraction: while the loop runs the queue is the url of
\* the page followed by the entries of the scripts visited so far, and the
\* loop never ends in a panic.
C32_EveryScriptPushed ==
    /\ w[1].pc = "push" => Len(queue) = w[1].k
    /\ w[1].pc = "panic" => w[1].k > Len(w[1].scripts)

\* the queue entries search i has pushed so far
PushedBy(i) ==
    [j \in 1..(w[i].k - 1) |-> ResolveScript(w[i].scripts[j], w[i].url)]

\* how often url is among the entries searches 1..i have pushed
RECURSIVE PushedCount(_, _)
PushedCount(i, url) ==
    IF i = 0 THEN 0 ELSE Count(PushedBy(i), url) + PushedCount(i - 1, url)

C34_EmptyUrlNoEffect ==
    (w[1].url = EmptyStr /\ w[1].pc # "start") =>
        /\ w[1] = [NoWorker EXCEPT !.pc = "error", !.err = "search empty"]
        /\ queue = << EmptyStr >>
        /\ output = <<>>
        /\ secretRegex = BaseTable

\* C34 witness: search("") has returned its error.
C34_Witness ==
    /\ w[1].url = EmptyStr
    /\ w[1].pc = "error"
    /\ w[1].err = "search empty"

\* the elements of a sequence
Range(seq) == {seq[j] : j \in 1..Len(seq)}

\* the findings search i collects from the text of its page alone
PageFindings(i) ==
    IF flags.secrets
    THEN LET found == ExtractSecrets(w[i].content, Absent).found
         IN Range(Findings(SecretLines(found, CHOOSE o \in Orders(DOMAIN found) : TRUE, 1),
                           w[i].url, flags.verify))
    ELSE Range(Findings(ExtractStrings(w[i].content, Absent), w[i].url, flags.verify))

-----------------------------------------------------------------------------
(* Further claims on URLQueue *)

\* C36: Pop returns "" exactly when it found the queue empty, for every url
\* the program pushes, the empty lines of a url file included.
C36_EmptyMeansEmptyQueue ==
    \A p \in Procs :
        qpc[p] = "pop_unlock" => (qret[p] = EmptyStr <=> qempty[p])

-----------------------------------------------------------------------------
(* Further claims on getStrings *)

\* C37: getStrings never emits the empty string: every element of its
\* result has at least one character, for every text and both values of
\* noisy, a text that ends right after an opening quote included.
C37_NoEmptyString ==
    StringsDone => \A j \in 1..Len(sRes) : sRes[j] # EmptyStr

\* C38: in every string getStrings emits, each quote character (single,
\* double or backtick) comes right after a backslash: no unescaped
\* delimiter is inside an emitted value.
C38_QuotesAreEscaped ==
    StringsDone =>
        \A j \in 1..Len(sRes) : \A k \in 1..Len(sRes[j]) :
            IsQuote(sRes[j][k]) => (k > 1 /\ sRes[j][k - 1] = BS)

\* C38 witness: the literal ' \ " a ' was emitted as \ " a.
C38_Witness ==
    /\ StringsDone
    /\ sText = <<SQ, BS, DQ, "a", SQ>>
    /\ sRes = << <<BS, DQ, "a">> >>

\* C39: the escaped flag covers exactly one following character: in a
\* string whose content is a followed by two backslashes, the second
\* backslash is the escaped character, so the delimiter after it is not
\* escaped and closes the string, which is emitted as a.
C39_EscapedBackslashCloses ==
    ( /\ StringsDone
      /\ Len(sText) >= 5
      /\ IsQuote(sText[1])
      /\ sText[2] = "a"
      /\ sText[3] = BS
      /\ sText[4] = BS
      /\ IsQuote(sText[5]) )
    => (Len(sRes) >= 1 /\ sRes[1] = <<"a">>)

=============================================================================
